---- MODULE Spec2Model ----
(***************************************************************************)
(* The netlink session of src/src/handle.rs: NetlinkHandle { seq, socket } *)
(* with execute = send ; recv, the frame extractor decode, the blocking    *)
(* reader next_msg and the reply classification of recv.                   *)
(*                                                                         *)
(* Wire abstraction.  A buffer is a sequence of 16-byte units.  A frame is *)
(* one header unit (declared length in units, message type, flags,        *)
(* sequence number) followed by its payload units.  A short unit          *)
(* (short = TRUE) stands for the bytes left where a datagram was cut:      *)
(* fewer bytes than a unit, so it counts neither as a header nor towards   *)
(* a declared length, and it is the last unit of its datagram.             *)
(***************************************************************************)
EXTENDS Integers, Sequences, FiniteSets, TLC

\* ------------------------------------------------------------- bounds
MaxExec == 2        \* execute calls made on one handle
MaxFrames == 2      \* frames the kernel packs into one datagram
MaxDeliver == 2     \* datagrams the kernel delivers on one socket

\* ---------------------------------------------------------- constants
U16 == 65536
NLM_F_REQUEST == 1
NLM_F_MULTIPART == 2
NLM_F_ACK == 4

Handles == {1, 2}
\* Handles that issue requests under Spec.
Active == {1}

\* Flag words callers of execute pass: ACK; REQUEST|DUMP (route list);
\* CREATE|REPLACE (neighbour set); CREATE|EXCL|ACK (link add).
CallerFlags == {4, 769, 1280, 1540}

\* Inner-message bodies the kernel may send (0 is a body that fails to parse).
Bodies == {1, 2}
\* Status codes of Error frames: none/zero, ENODEV, EEXIST, ENOENT.
Codes == {0, -19, -17, -2}

\* ------------------------------------------------------- bit arithmetic
RECURSIVE BitOr(_, _)
BitOr(a, b) ==
    IF a = 0 THEN b
    ELSE IF b = 0 THEN a
    ELSE (IF a % 2 = 1 \/ b % 2 = 1 THEN 1 ELSE 0) + 2 * BitOr(a \div 2, b \div 2)

RECURSIVE BitAnd(_, _)
BitAnd(a, b) ==
    IF a = 0 \/ b = 0 THEN 0
    ELSE (IF a % 2 = 1 /\ b % 2 = 1 THEN 1 ELSE 0) + 2 * BitAnd(a \div 2, b \div 2)

\* ------------------------------------------------------------ wire units
Hdr(len, ty, fl, sq) ==
    [short |-> FALSE, len |-> len, ty |-> ty, fl |-> fl, seq |-> sq, v |-> 0]
Payload(v) ==
    [short |-> FALSE, len |-> 0, ty |-> "Data", fl |-> 0, seq |-> 0, v |-> v]
Frag ==
    [short |-> TRUE, len |-> 0, ty |-> "Data", fl |-> 0, seq |-> 0, v |-> 0]

\* A decoded NetlinkMessage: payload variant, header flags, header sequence
\* number, and the payload value (inner body, or the error code).
Msg(ty, fl, sq, v) == [ty |-> ty, fl |-> fl, seq |-> sq, v |-> v]
NoMsg == Msg("None", 0, 0, 0)

\* The whole units a buffer holds: what src.len() amounts to when a declared
\* length is compared with it, the bytes of a short unit being fewer than
\* one unit.
whole_units(buf) == Len(SelectSeq(buf, LAMBDA u : ~u.short))

\* NetlinkBuffer::new_checked: the buffer holds a whole header, the declared
\* length does not exceed the bytes present, and is at least a header.
new_checked(buf) ==
    /\ Len(buf) >= 1
    /\ ~Head(buf).short
    /\ Head(buf).len <= whole_units(buf)
    /\ Head(buf).len >= 1

\* NetlinkMessage::deserialize on the bytes of one frame.
deserialize(bytes) ==
    LET h == Head(bytes)
        pl == Tail(bytes)
    IN  CASE h.ty = "Noop" -> [ok |-> TRUE, msg |-> Msg("Noop", h.fl, h.seq, 0)]
          [] h.ty = "Overrun" -> [ok |-> TRUE, msg |-> Msg("Overrun", h.fl, h.seq, 0)]
          [] h.ty = "Done" ->
                IF Len(pl) >= 1
                THEN [ok |-> TRUE, msg |-> Msg("Done", h.fl, h.seq, 0)]
                ELSE [ok |-> FALSE, msg |-> NoMsg]
          [] h.ty = "Error" ->
                IF Len(pl) >= 1
                THEN [ok |-> TRUE, msg |-> Msg("Error", h.fl, h.seq, pl[1].v)]
                ELSE [ok |-> FALSE, msg |-> NoMsg]
          [] OTHER ->
                IF Len(pl) >= 1 /\ pl[1].v > 0
                THEN [ok |-> TRUE, msg |-> Msg("InnerMessage", h.fl, h.seq, pl[1].v)]
                ELSE [ok |-> FALSE, msg |-> NoMsg]

\* Variant of decode that drops one unit of an unreadable front and goes on
\* with what follows, instead of discarding the buffer.
RECURSIVE decode_resync(_)
decode_resync(buf) ==
    IF buf = <<>> THEN [msg |-> NoMsg, rest |-> <<>>, cleared |-> FALSE]
    ELSE IF ~new_checked(buf) THEN decode_resync(Tail(buf))
    ELSE LET len == Head(buf).len
             parsed == deserialize(SubSeq(buf, 1, len))
         IN  IF parsed.ok
             THEN [msg |-> parsed.msg, rest |-> SubSeq(buf, len + 1, Len(buf)),
                   cleared |-> FALSE]
             ELSE decode_resync(SubSeq(buf, len + 1, Len(buf)))

\* Variant of decode that gives up the buffer at a frame that does not
\* deserialize.
decode_stop(buf) ==
    IF buf = <<>> THEN [msg |-> NoMsg, rest |-> <<>>, cleared |-> FALSE]
    ELSE IF ~new_checked(buf) THEN [msg |-> NoMsg, rest |-> <<>>, cleared |-> TRUE]
    ELSE LET len == Head(buf).len
             parsed == deserialize(SubSeq(buf, 1, len))
         IN  IF parsed.ok
             THEN [msg |-> parsed.msg, rest |-> SubSeq(buf, len + 1, Len(buf)),
                   cleared |-> FALSE]
             ELSE [msg |-> NoMsg, rest |-> <<>>, cleared |-> FALSE]

\* NetlinkHandle::decode: the next frame of the buffer that deserializes.
\* msg = NoMsg is Ok(None); cleared tells that the buffer was discarded
\* because the declared length could not be read.
RECURSIVE decode(_)
decode(buf) ==
    IF buf = <<>> THEN [msg |-> NoMsg, rest |-> <<>>, cleared |-> FALSE]
    ELSE IF ~new_checked(buf) THEN [msg |-> NoMsg, rest |-> <<>>, cleared |-> TRUE]
    ELSE LET len == Head(buf).len
             bytes == SubSeq(buf, 1, len)
             rest == SubSeq(buf, len + 1, Len(buf))
             parsed == deserialize(bytes)
         IN  IF parsed.ok
             THEN [msg |-> parsed.msg, rest |-> rest, cleared |-> FALSE]
             ELSE decode(rest)

\* --------------------------------------------------------------- send
\* Variant of next_seq that stamps without counting.
next_seq_stuck(s) == s

\* Line 39, self.seq += 1 on a u32.  The counter of the model stays far below
\* 2^32 (at most MaxExec increments from 0), so the sum never wraps here.
next_seq(s) == s + 1

\* Variant of request_flags that leaves ACK to the caller.
request_flags_no_ack(flags) == BitOr(flags, NLM_F_REQUEST) % U16

request_flags(flags) == BitOr(BitOr(flags, NLM_F_REQUEST), NLM_F_ACK) % U16

\* --------------------------------------------------------------- recv
\* Variant of is_multi that takes every reply for a part of a dump.
is_multi_always(fl) == TRUE

is_multi(fl) == BitAnd(fl, NLM_F_MULTIPART) # 0

\* Variant of seq_check that rejects every other sequence number.
seq_check_strict(msgseq, s) == IF msgseq # s THEN "mismatch" ELSE "match"

\* Variant of seq_check that ignores every other sequence number.
seq_check_lenient(msgseq, s) == IF msgseq # s THEN "stale" ELSE "match"

\* Lines 131-137: the sequence check of one received frame.
seq_check(msgseq, s) ==
    IF msgseq # s
    THEN IF msgseq < s THEN "stale" ELSE "mismatch"
    ELSE "match"

\* Variant of error_outcome that takes ENOENT (-2) for "not found".
error_outcome_enoent(code) ==
    IF code # 0
    THEN IF code = -2 THEN "NotFound"
         ELSE IF code = -17 THEN "AlreadyExists"
         ELSE "ErrorResponse"
    ELSE "Ok"

\* Lines 145-158: the outcome of an Error frame with status code `code`.
error_outcome(code) ==
    IF code # 0
    THEN IF code = -19 THEN "NotFound"
         ELSE IF code = -17 THEN "AlreadyExists"
         ELSE "ErrorResponse"
    ELSE "Ok"

\* Variant of payload_step that does not keep the parts of a multi-part reply.
payload_step_drop(msg, res) ==
    CASE msg.ty = "Done" -> [ctl |-> "Ok", result |-> res]
      [] msg.ty = "Error" -> [ctl |-> error_outcome(msg.v), result |-> res]
      [] msg.ty = "Noop" -> [ctl |-> "Unimplemented", result |-> res]
      [] msg.ty = "Overrun" -> [ctl |-> "Unimplemented", result |-> res]
      [] msg.ty = "InnerMessage" ->
            IF ~is_multi(msg.fl)
            THEN [ctl |-> "Ok", result |-> Append(res, msg.v)]
            ELSE [ctl |-> "continue", result |-> res]
      [] OTHER -> [ctl |-> "Unimplemented", result |-> res]

\* Variant of payload_step that skips Noop and Overrun frames.
payload_step_skip(msg, res) ==
    CASE msg.ty = "Done" -> [ctl |-> "Ok", result |-> res]
      [] msg.ty = "Error" -> [ctl |-> error_outcome(msg.v), result |-> res]
      [] msg.ty = "Noop" -> [ctl |-> "continue", result |-> res]
      [] msg.ty = "Overrun" -> [ctl |-> "continue", result |-> res]
      [] msg.ty = "InnerMessage" ->
            IF ~is_multi(msg.fl)
            THEN [ctl |-> "Ok", result |-> Append(res, msg.v)]
            ELSE [ctl |-> "continue", result |-> Append(res, msg.v)]
      [] OTHER -> [ctl |-> "Unimplemented", result |-> res]

\* Variant of payload_step that waits for a Done frame after every inner
\* message, multi-part or not.
payload_step_wait(msg, res) ==
    CASE msg.ty = "Done" -> [ctl |-> "Ok", result |-> res]
      [] msg.ty = "Error" -> [ctl |-> error_outcome(msg.v), result |-> res]
      [] msg.ty = "Noop" -> [ctl |-> "Unimplemented", result |-> res]
      [] msg.ty = "Overrun" -> [ctl |-> "Unimplemented", result |-> res]
      [] msg.ty = "InnerMessage" ->
            [ctl |-> "continue", result |-> Append(res, msg.v)]
      [] OTHER -> [ctl |-> "Unimplemented", result |-> res]

\* Lines 139-174: the match on the payload of a frame with the current
\* sequence number.  ctl is "continue", or the outcome the call ends with.
payload_step(msg, res) ==
    CASE msg.ty = "Done" -> [ctl |-> "Ok", result |-> res]
      [] msg.ty = "Error" -> [ctl |-> error_outcome(msg.v), result |-> res]
      [] msg.ty = "Noop" -> [ctl |-> "Unimplemented", result |-> res]
      [] msg.ty = "Overrun" -> [ctl |-> "Unimplemented", result |-> res]
      [] msg.ty = "InnerMessage" ->
            IF ~is_multi(msg.fl)
            THEN [ctl |-> "Ok", result |-> Append(res, msg.v)]
            ELSE [ctl |-> "continue", result |-> Append(res, msg.v)]
      [] OTHER -> [ctl |-> "Unimplemented", result |-> res]

\* Variant of recv_step that takes a frame of any sequence number.
recv_step_unchecked(msg, s, res) == payload_step(msg, res)

\* Lines 130-175: one iteration of the receive loop on frame msg.
recv_step(msg, s, res) ==
    LET c == seq_check(msg.seq, s)
    IN  IF c = "stale" THEN [ctl |-> "continue", result |-> res]
        ELSE IF c = "mismatch" THEN [ctl |-> "SeqMismatch", result |-> res]
        ELSE payload_step(msg, res)

\* ------------------------------------------------- the kernel's frames
InnerFrame(fl, sq, v) == <<Hdr(2, "Rtnl", fl, sq), Payload(v)>>
DoneFrame(sq) == <<Hdr(2, "Done", NLM_F_MULTIPART, sq), Payload(0)>>
ErrorFrame(sq, code) == <<Hdr(2, "Error", 0, sq), Payload(code)>>
NoopFrame(sq) == <<Hdr(1, "Noop", 0, sq)>>
OverrunFrame(sq) == <<Hdr(1, "Overrun", 0, sq)>>

\* Fronts whose declared length cannot be read: length beyond the buffer,
\* length below a header, truncated header.
TruncatedFrame(sq) == <<Hdr(3, "Rtnl", NLM_F_MULTIPART, sq), Payload(1)>>
ShortLenFrame(sq) == <<Hdr(0, "Done", 0, sq)>>
\* A frame of valid length whose body does not deserialize.
JunkFrame(sq) == InnerFrame(NLM_F_MULTIPART, sq, 0)

\* What the kernel may put in a datagram while the handle's counter is s.
\* Each specification draws from one of these sets.
\* The reply path: multi-part and single inner messages, Done, the ack.
ReplyPieces(s) ==
    {InnerFrame(NLM_F_MULTIPART, s, v) : v \in Bodies}
    \cup {InnerFrame(0, s, 1), DoneFrame(s), ErrorFrame(s, 0), JunkFrame(s)}

\* The terminal frames: every status code, Noop, Overrun.
ErrPieces(s) ==
    {ErrorFrame(s, c) : c \in Codes}
    \cup {InnerFrame(NLM_F_MULTIPART, s, 1), NoopFrame(s), OverrunFrame(s),
          JunkFrame(s)}

\* Frames of an earlier request (sequence number below s) and of a later one.
SeqPieces(s) ==
    (IF s = 0 THEN {}
     ELSE {InnerFrame(0, s - 1, 2), DoneFrame(s - 1), ErrorFrame(s - 1, -19),
           OverrunFrame(s - 1)})
    \cup {InnerFrame(NLM_F_MULTIPART, s, 1), DoneFrame(s), DoneFrame(s + 1),
          JunkFrame(s)}

\* Malformed input among well-formed frames.
BadPieces(s) ==
    {InnerFrame(NLM_F_MULTIPART, s, 1), InnerFrame(0, s, 2), DoneFrame(s),
     JunkFrame(s), TruncatedFrame(s), ShortLenFrame(s), <<Frag>>}

\* Every way a call ends, among what the reader passes over: a stale frame,
\* a frame that does not deserialize, a header that declares more than its
\* own units (it takes the units that follow as its payload, or is
\* unreadable when they are too few) and a header that declares less than a
\* header (unreadable wherever it stands).
LivePieces(s) ==
    (IF s = 0 THEN {} ELSE {DoneFrame(s - 1)})
    \cup {InnerFrame(NLM_F_MULTIPART, s, 1), InnerFrame(0, s, 2), DoneFrame(s),
          ErrorFrame(s, -19), OverrunFrame(s), JunkFrame(s),
          TruncatedFrame(s), ShortLenFrame(s)}

\* The answers to request s alone, each inner message carrying s as its
\* body: single and multi-part inner messages (one with a frame behind it
\* that does not deserialize), the ack, Done.
CallPieces(s) ==
    {InnerFrame(0, s, s), InnerFrame(NLM_F_MULTIPART, s, s),
     InnerFrame(NLM_F_MULTIPART, s, s) \o JunkFrame(s), ErrorFrame(s, 0),
     DoneFrame(s)}

\* Parts of a reply (one with a frame behind it that does not deserialize)
\* and the frames a call fails on: status codes, Overrun, a frame of a
\* sequence number not yet used.
FailPieces(s) ==
    {InnerFrame(NLM_F_MULTIPART, s, 2) \o JunkFrame(s),
     ErrorFrame(s, -19), ErrorFrame(s, -17), ErrorFrame(s, -2),
     OverrunFrame(s), DoneFrame(s + 1)}

\* Inner messages with body 2 come right after a frame that does not
\* deserialize, those with body 1 do not.
SkipPieces(s) ==
    {InnerFrame(NLM_F_MULTIPART, s, 1),
     JunkFrame(s) \o InnerFrame(NLM_F_MULTIPART, s, 2),
     JunkFrame(s) \o InnerFrame(0, s, 2),
     JunkFrame(s), DoneFrame(s)}

\* The body of the inner messages the kernel sends on the socket of h: each
\* socket carries the answers to its own request.
OwnBody(h) == h

\* What the kernel puts on the socket of h when several sessions run.
\* (A part of the dump, followed by a frame to skip; the end of the dump.)
ConcPieces(h, s) ==
    {InnerFrame(NLM_F_MULTIPART, s, OwnBody(h)) \o JunkFrame(s), DoneFrame(s)}

AllPieces(s) ==
    ReplyPieces(s) \cup ErrPieces(s) \cup SeqPieces(s) \cup BadPieces(s)

RECURSIVE DatagramsOf(_, _)
DatagramsOf(P, n) ==
    IF n = 0 THEN {<<>>}
    ELSE {p \o d : p \in P, d \in DatagramsOf(P, n - 1)}

\* Datagrams of one to MaxFrames frames drawn from P.  A datagram is cut at
\* its end only: a short unit is never followed by another unit.
Datagrams(P) ==
    {d \in UNION {DatagramsOf(P, n) : n \in 1..MaxFrames} :
        \A i \in 1..(Len(d) - 1) : ~d[i].short}

\* ------------------------------------------------------------- state
VARIABLES
    seq,        \* NetlinkHandle.seq
    sock,       \* datagrams queued on NetlinkHandle.socket, oldest first
    wire,       \* the request written to the socket, until the kernel takes it
    pc,         \* "idle": no call in progress; "recv": inside recv's loop
    src,        \* recv's buffer src
    result,     \* recv's accumulator result
    last,       \* msg of the current iteration of recv's loop
    outcome,    \* how the last execute ended; "None" while one is running
    ret,        \* the Vec the last execute returned in Ok, <<>> otherwise
    calls,      \* number of execute calls made on the handle
    delivered,  \* number of datagrams the kernel delivered on the socket
    unread,     \* units left in src when the last execute returned
    lost,       \* decode discarded a buffer during this execute
    io_failed,  \* a socket operation of this execute failed
    mp          \* what the socket reads of this execute amount to

\* The domain operations of addr.rs, route.rs and link.rs, each one call.
VARIABLES
    arg,        \* the arguments of the domain operation under way
    msg,        \* the message it built, or the reply execute handed to it
    res,        \* what it returned
    stage       \* "none", "called", "returned", "decoded"

\* The variables of the session, and those of the domain operation.
svars == <<seq, sock, wire, pc, src, result, last, outcome, ret, calls,
           delivered, unread, lost, io_failed, mp>>
dvars == <<arg, msg, res, stage>>
vars == <<seq, sock, wire, pc, src, result, last, outcome, ret, calls,
          delivered, unread, lost, io_failed, mp, arg, msg, res, stage>>

\* No domain operation under way.
NoCall == [op |-> "none"]

NoPacket == [seq |-> 0, fl |-> 0, arg |-> 0]
MpStart == [st |-> "multi", bodies |-> <<>>, n |-> 0]
MpOther == [st |-> "other", bodies |-> <<>>, n |-> 0]

\* NetlinkHandle::new: seq 0 and a fresh, empty socket.
InitHandle ==
    /\ seq = [h \in Handles |-> 0]
    /\ sock = [h \in Handles |-> <<>>]
    /\ wire = [h \in Handles |-> NoPacket]
    /\ pc = [h \in Handles |-> "idle"]
    /\ src = [h \in Handles |-> <<>>]
    /\ result = [h \in Handles |-> <<>>]
    /\ last = [h \in Handles |-> NoMsg]
    /\ outcome = [h \in Handles |-> "None"]
    /\ ret = [h \in Handles |-> <<>>]
    /\ calls = [h \in Handles |-> 0]
    /\ delivered = [h \in Handles |-> 0]
    /\ unread = [h \in Handles |-> 0]
    /\ lost = [h \in Handles |-> FALSE]
    /\ io_failed = [h \in Handles |-> FALSE]
    /\ mp = [h \in Handles |-> MpOther]

\* The handles alone.
Init ==
    /\ InitHandle
    /\ arg = NoCall
    /\ msg = NoCall
    /\ res = NoCall
    /\ stage = "none"

\* The frames of datagram d when it is a run of well-formed frames, and
\* <<NoMsg>> when it is not.
RECURSIVE FramesOf(_)
FramesOf(d) ==
    IF d = <<>> THEN <<>>
    ELSE IF ~new_checked(d) THEN <<NoMsg>>
    ELSE LET len == Head(d).len
             parsed == deserialize(SubSeq(d, 1, len))
             tl == FramesOf(SubSeq(d, len + 1, Len(d)))
         IN  IF ~parsed.ok \/ (tl # <<>> /\ tl[Len(tl)] = NoMsg)
             THEN <<NoMsg>>
             ELSE <<parsed.msg>> \o tl

IsMultiInner(m, s) ==
    m.ty = "InnerMessage" /\ m.seq = s /\ BitAnd(m.fl, NLM_F_MULTIPART) # 0

\* The reply stream read so far in this execute: "multi" while it is only
\* MULTIPART inner frames with the current sequence number, "done" when
\* those were followed by one Done frame ending a datagram, else "other".
MpRead(m, d, s) ==
    LET fs == FramesOf(d)
        n == Len(fs)
    IN  IF m.st # "multi" \/ n = 0 \/ fs[n] = NoMsg THEN MpOther
        ELSE IF \A i \in 1..n : IsMultiInner(fs[i], s)
        THEN [st |-> "multi", bodies |-> m.bodies \o [i \in 1..n |-> fs[i].v],
              n |-> m.n + 1]
        ELSE IF /\ fs[n].ty = "Done" /\ fs[n].seq = s
                /\ \A i \in 1..(n - 1) : IsMultiInner(fs[i], s)
        THEN [st |-> "done",
              bodies |-> m.bodies \o [i \in 1..(n - 1) |-> fs[i].v],
              n |-> m.n + 1]
        ELSE MpOther

\* ------------------------------------------------------------ actions
\* execute, lines 32-50 and 127-128: send stamps and writes the request,
\* then recv starts with an empty result and an empty buffer.
Send(h) ==
    /\ pc[h] = "idle"
    /\ calls[h] < MaxExec
    /\ \E flags \in CallerFlags :
          wire' = [wire EXCEPT ![h] = [seq |-> next_seq(seq[h]),
                                       fl |-> request_flags(flags),
                                       arg |-> flags]]
    /\ seq' = [seq EXCEPT ![h] = next_seq(@)]
    /\ calls' = [calls EXCEPT ![h] = @ + 1]
    /\ pc' = [pc EXCEPT ![h] = "recv"]
    /\ src' = [src EXCEPT ![h] = <<>>]
    /\ result' = [result EXCEPT ![h] = <<>>]
    /\ last' = [last EXCEPT ![h] = NoMsg]
    /\ outcome' = [outcome EXCEPT ![h] = "None"]
    /\ ret' = [ret EXCEPT ![h] = <<>>]
    /\ unread' = [unread EXCEPT ![h] = 0]
    /\ lost' = [lost EXCEPT ![h] = FALSE]
    /\ io_failed' = [io_failed EXCEPT ![h] = FALSE]
    /\ mp' = [mp EXCEPT ![h] = MpStart]
    /\ UNCHANGED <<sock, delivered>>
    /\ UNCHANGED dvars

\* execute, lines 33 and 37-48: the socket send fails; send's error is
\* returned by `?` and recv is not entered.
SendFail(h) ==
    /\ pc[h] = "idle"
    /\ calls[h] < MaxExec
    /\ seq' = [seq EXCEPT ![h] = next_seq(@)]
    /\ calls' = [calls EXCEPT ![h] = @ + 1]
    /\ result' = [result EXCEPT ![h] = <<>>]
    /\ last' = [last EXCEPT ![h] = NoMsg]
    /\ outcome' = [outcome EXCEPT ![h] = "SendErr"]
    /\ ret' = [ret EXCEPT ![h] = <<>>]
    /\ unread' = [unread EXCEPT ![h] = 0]
    /\ lost' = [lost EXCEPT ![h] = FALSE]
    /\ io_failed' = [io_failed EXCEPT ![h] = TRUE]
    /\ mp' = [mp EXCEPT ![h] = MpOther]
    /\ UNCHANGED <<sock, wire, pc, src, delivered>>
    /\ UNCHANGED dvars

\* The kernel queues on the socket of h one datagram of frames drawn from P.
\* It is queued when the reader has used up what it read before.
DeliverFrom(h, P) ==
    /\ calls[h] >= 1
    /\ delivered[h] < MaxDeliver
    /\ sock[h] = <<>>
    /\ src[h] = <<>>
    /\ \E d \in Datagrams(P) : sock' = [sock EXCEPT ![h] = <<d>>]
    /\ delivered' = [delivered EXCEPT ![h] = @ + 1]
    /\ wire' = [wire EXCEPT ![h] = NoPacket]
    /\ UNCHANGED <<seq, pc, src, result, last, outcome, ret, calls, unread,
                   lost, io_failed, mp>>
    /\ UNCHANGED dvars

DeliverReply(h) == DeliverFrom(h, ReplyPieces(seq[h]))
DeliverErr(h) == DeliverFrom(h, ErrPieces(seq[h]))
DeliverSeq(h) == DeliverFrom(h, SeqPieces(seq[h]))
DeliverBad(h) == DeliverFrom(h, BadPieces(seq[h]))
DeliverAny(h) == DeliverFrom(h, AllPieces(seq[h]))
DeliverLive(h) == DeliverFrom(h, LivePieces(seq[h]))
DeliverConc(h) == DeliverFrom(h, ConcPieces(h, seq[h]))
DeliverCall(h) == DeliverFrom(h, CallPieces(seq[h]))
DeliverFail(h) == DeliverFrom(h, FailPieces(seq[h]))
DeliverSkip(h) == DeliverFrom(h, SkipPieces(seq[h]))

\* The kernel queues one more datagram of the answer to the last request
\* after execute has returned; it stays on the socket for the next call.
DeliverLeftover(h) ==
    /\ pc[h] = "idle"
    /\ calls[h] >= 1
    /\ calls[h] < MaxExec
    /\ sock[h] = <<>>
    /\ \E d \in Datagrams(CallPieces(seq[h])) : sock' = [sock EXCEPT ![h] = <<d>>]
    /\ wire' = [wire EXCEPT ![h] = NoPacket]
    /\ UNCHANGED <<seq, pc, src, result, last, outcome, ret, calls, delivered,
                   unread, lost, io_failed, mp>>
    /\ UNCHANGED dvars

\* Variant of RecvFrame that returns what was accumulated with a failure.
RecvFrame_partial(h) ==
    /\ pc[h] = "recv"
    /\ src[h] # <<>>
    /\ LET d == decode(src[h])
           r == recv_step(d.msg, seq[h], result[h])
       IN  /\ d.msg # NoMsg
           /\ last' = [last EXCEPT ![h] = d.msg]
           /\ result' = [result EXCEPT ![h] = r.result]
           /\ IF r.ctl = "continue"
              THEN /\ src' = [src EXCEPT ![h] = d.rest]
                   /\ UNCHANGED <<pc, outcome, ret, unread>>
              ELSE /\ src' = [src EXCEPT ![h] = <<>>]
                   /\ pc' = [pc EXCEPT ![h] = "idle"]
                   /\ outcome' = [outcome EXCEPT ![h] = r.ctl]
                   /\ ret' = [ret EXCEPT ![h] = r.result]
                   /\ unread' = [unread EXCEPT ![h] = Len(d.rest)]
    /\ UNCHANGED <<seq, sock, wire, calls, delivered, lost, io_failed, mp>>
    /\ UNCHANGED dvars

\* recv's loop, lines 130-175, on a frame next_msg takes from the buffer.
RecvFrame(h) ==
    /\ pc[h] = "recv"
    /\ src[h] # <<>>
    /\ LET d == decode(src[h])
           r == recv_step(d.msg, seq[h], result[h])
       IN  /\ d.msg # NoMsg
           /\ last' = [last EXCEPT ![h] = d.msg]
           /\ result' = [result EXCEPT ![h] = r.result]
           /\ IF r.ctl = "continue"
              THEN /\ src' = [src EXCEPT ![h] = d.rest]
                   /\ UNCHANGED <<pc, outcome, ret, unread>>
              ELSE /\ src' = [src EXCEPT ![h] = <<>>]
                   /\ pc' = [pc EXCEPT ![h] = "idle"]
                   /\ outcome' = [outcome EXCEPT ![h] = r.ctl]
                   /\ ret' = [ret EXCEPT ![h] =
                                 IF r.ctl = "Ok" THEN r.result ELSE <<>>]
                   /\ unread' = [unread EXCEPT ![h] = Len(d.rest)]
    /\ UNCHANGED <<seq, sock, wire, calls, delivered, lost, io_failed, mp>>
    /\ UNCHANGED dvars

\* next_msg, lines 109-119: decode finds no frame in a non-empty buffer (it
\* skipped what was there, or discarded it); the buffer is cleared and the
\* reader goes on to the socket.
BufferExhausted(h) ==
    /\ pc[h] = "recv"
    /\ src[h] # <<>>
    /\ decode(src[h]).msg = NoMsg
    /\ src' = [src EXCEPT ![h] = <<>>]
    /\ last' = [last EXCEPT ![h] = NoMsg]
    /\ lost' = [lost EXCEPT ![h] = @ \/ decode(src[h]).cleared]
    /\ UNCHANGED <<seq, sock, wire, pc, result, outcome, ret, calls,
                   delivered, unread, io_failed, mp>>
    /\ UNCHANGED dvars

\* Variant of SocketRecv in which every handle reads the one socket of the
\* first handle.
SocketRecv_shared(h) ==
    /\ pc[h] = "recv"
    /\ src[h] = <<>>
    /\ sock[1] # <<>>
    /\ src' = [src EXCEPT ![h] = Head(sock[1])]
    /\ sock' = [sock EXCEPT ![1] = Tail(@)]
    /\ last' = [last EXCEPT ![h] = NoMsg]
    /\ mp' = [mp EXCEPT ![h] = MpRead(@, Head(sock[1]), seq[h])]
    /\ UNCHANGED <<seq, wire, pc, result, outcome, ret, calls, delivered,
                   unread, lost, io_failed>>
    /\ UNCHANGED dvars

\* next_msg, lines 119-123: the socket read fills the empty buffer with the
\* next datagram.
SocketRecv(h) ==
    /\ pc[h] = "recv"
    /\ src[h] = <<>>
    /\ sock[h] # <<>>
    /\ src' = [src EXCEPT ![h] = Head(sock[h])]
    /\ sock' = [sock EXCEPT ![h] = Tail(@)]
    /\ last' = [last EXCEPT ![h] = NoMsg]
    /\ mp' = [mp EXCEPT ![h] = MpRead(@, Head(sock[h]), seq[h])]
    /\ UNCHANGED <<seq, wire, pc, result, outcome, ret, calls, delivered,
                   unread, lost, io_failed>>
    /\ UNCHANGED dvars

\* next_msg, lines 121-123, and recv, lines 130 and 177: the socket read
\* fails, next_msg returns Err, the `while let Ok(Some(msg))` pattern does not
\* match, and recv returns Ok(result).
SocketRecvFail(h) ==
    /\ pc[h] = "recv"
    /\ src[h] = <<>>
    /\ pc' = [pc EXCEPT ![h] = "idle"]
    /\ outcome' = [outcome EXCEPT ![h] = "Ok"]
    /\ ret' = [ret EXCEPT ![h] = result[h]]
    /\ last' = [last EXCEPT ![h] = NoMsg]
    /\ io_failed' = [io_failed EXCEPT ![h] = TRUE]
    /\ mp' = [mp EXCEPT ![h] = MpOther]
    /\ UNCHANGED <<seq, sock, wire, src, result, calls, delivered, unread,
                   lost>>
    /\ UNCHANGED dvars

\* The steps of execute on handle h.
Session(h) ==
    \/ Send(h)
    \/ SendFail(h)
    \/ RecvFrame(h)
    \/ BufferExhausted(h)
    \/ SocketRecv(h)
    \/ SocketRecvFail(h)

Next == \E h \in Active : Session(h) \/ DeliverReply(h)
NextErr == \E h \in Active : Session(h) \/ DeliverErr(h)
NextSeq == \E h \in Active : Session(h) \/ DeliverSeq(h)
NextBad == \E h \in Active : Session(h) \/ DeliverBad(h)
NextAll == \E h \in Active : Session(h) \/ DeliverAny(h)
NextLive == \E h \in Active : Session(h) \/ DeliverLive(h)

\* A domain operation (link_by_name, lines 173-190 of link.rs): a handle
\* made for the occasion, and one execute on it.
Operation(h) ==
    \/ calls[h] = 0 /\ Send(h)
    \/ calls[h] = 0 /\ SendFail(h)
    \/ RecvFrame(h)
    \/ BufferExhausted(h)
    \/ SocketRecv(h)
    \/ SocketRecvFail(h)

NextConc == \E h \in Handles : Operation(h) \/ DeliverConc(h)
NextCalls ==
    \E h \in Active : Session(h) \/ DeliverCall(h) \/ DeliverLeftover(h)
NextFail == \E h \in Active : Session(h) \/ DeliverFail(h)
NextSkip == \E h \in Active : Session(h) \/ DeliverSkip(h)

\* One session against a kernel that answers the request.
Spec == Init /\ [][Next]_vars
\* ... that ends the reply with an error or an unsupported frame.
SpecErr == Init /\ [][NextErr]_vars
\* ... that mixes in frames of other sequence numbers.
SpecSeq == Init /\ [][NextSeq]_vars
\* ... that sends malformed data.
SpecBad == Init /\ [][NextBad]_vars
\* ... that sends any of the above.
SpecAll == Init /\ [][NextAll]_vars
\* Two sessions, each on its own handle, interleaved in every way.
SpecConc == Init /\ [][NextConc]_vars

\* The reader's steps are taken when they can be: the loop runs on, and a
\* blocking socket read returns once a datagram is queued.  The kernel is
\* not obliged to send, and a socket operation is not obliged to fail.
ReaderStep(h) == RecvFrame(h) \/ BufferExhausted(h) \/ SocketRecv(h)
ReaderFairness == \A h \in Active : WF_vars(ReaderStep(h))

\* One session, scheduled fairly, against a kernel that sends any of the
\* frames that end a call among frames to pass over.
SpecLive == Init /\ [][NextLive]_vars /\ ReaderFairness

\* =================================================== domain operations
\* Option<T>: None, or Some(x).
None == <<>>
Some(x) == <<x>>

\* ------------------------------------------------------------ addr.rs
FAMILY_ALL == 0
FAMILY_V4 == 2
FAMILY_V6 == 10

\* std::net::IpAddr: the variant and the octets.
V4(a, b, c, d) == [fam |-> "V4", o |-> <<a, b, c, d>>]
V6(hi, lo) == [fam |-> "V6", o |-> <<hi, 0, 0, 0, 0, 0, 0, 0,
                                      0, 0, 0, 0, 0, 0, 0, lo>>]
\* ipnetwork::IpNetwork: address and prefix length.
Net(ip, prefix) == [ip |-> ip, prefix |-> prefix]

\* The outcomes execute may return with: Ok, the failures of recv (the three
\* error codes it names, any other code, an unsupported payload, a sequence
\* number that is not the handle's) and the failure of the socket send.
Outcomes ==
    {"Ok", "NotFound", "AlreadyExists", "ErrorResponse", "Unimplemented",
     "SeqMismatch", "SendErr"}

\* utils::ip_to_bytes and utils::ip_to_family.
ip_to_bytes(ip) == ip.o
ip_to_family(ip) == IF ip.fam = "V4" THEN FAMILY_V4 ELSE FAMILY_V6

\* utils::bytes_to_ip: the first 4 or 16 bytes, by family.
bytes_to_ip(bytes, family) ==
    IF family = FAMILY_V4
    THEN IF Len(bytes) < 4 THEN [ok |-> FALSE, v |-> None]
         ELSE [ok |-> TRUE, v |-> [fam |-> "V4", o |-> SubSeq(bytes, 1, 4)]]
    ELSE IF family = FAMILY_V6
    THEN IF Len(bytes) < 16 THEN [ok |-> FALSE, v |-> None]
         ELSE [ok |-> TRUE, v |-> [fam |-> "V6", o |-> SubSeq(bytes, 1, 16)]]
    ELSE [ok |-> FALSE, v |-> None]

\* IpNetwork::new accepts a prefix up to the width of the address.
prefix_ok(ip, prefix) == prefix <= (IF ip.fam = "V4" THEN 32 ELSE 128)

\* The bits of octet i (1..4) of an IPv4 address that the prefix leaves to
\* the host.
host_bits(prefix, i) ==
    LET n == prefix - 8 * (i - 1)
    IN  IF n <= 0 THEN 8 ELSE IF n >= 8 THEN 0 ELSE 8 - n

\* Ipv4Network::broadcast: the address with every host bit set.
broadcast(net) ==
    [fam |-> "V4",
     o |-> [i \in 1..4 |-> BitOr(net.ip.o[i], 2 ^ host_bits(net.prefix, i) - 1)]]

Nla(tag, val) == [tag |-> tag, val |-> val]

\* Variant of broadcast_addr that computes a broadcast address for every
\* prefix length.
broadcast_addr_any(addr) ==
    IF addr.broadcast = None
    THEN Some(broadcast(addr.ipnet))
    ELSE addr.broadcast

\* addr_handle, lines 84-88: the broadcast address of an IPv4 request.
broadcast_addr(addr) ==
    IF addr.broadcast = None /\ addr.ipnet.prefix < 31
    THEN Some(broadcast(addr.ipnet))
    ELSE addr.broadcast

\* addr_handle, lines 62-96: the AddressMessage of the request.
addr_message(link_idx, addr) ==
    LET local_addr_vec == ip_to_bytes(addr.ipnet.ip)
        peer_addr_vec == IF addr.peer # None
                         THEN ip_to_bytes(addr.peer[1].ip)
                         ELSE local_addr_vec
        bc == IF addr.ipnet.ip.fam = "V4" THEN broadcast_addr(addr) ELSE None
    IN  [header |-> [index |-> link_idx,
                     scope |-> addr.scope % 256,
                     prefix_len |-> addr.ipnet.prefix,
                     family |-> ip_to_family(addr.ipnet.ip)],
         nlas |-> <<Nla("Local", local_addr_vec),
                    Nla("Address", peer_addr_vec)>>
                  \o (IF bc # None
                      THEN <<Nla("Broadcast", ip_to_bytes(bc[1]))>>
                      ELSE <<>>)
                  \o (IF addr.label # ""
                      THEN <<Nla("Label", addr.label)>>
                      ELSE <<>>)]

\* addr_handle, lines 98-107: the request by type; Get and Change are todo!().
addr_handle(link_idx, addr, req_type) ==
    CASE req_type = "Add" ->
            [ok |-> TRUE, ty |-> "NewAddress", m |-> addr_message(link_idx, addr)]
      [] req_type = "Del" ->
            [ok |-> TRUE, ty |-> "DelAddress", m |-> addr_message(link_idx, addr)]
      [] OTHER -> [ok |-> FALSE, ty |-> "panic", m |-> NoCall]

\* Addr::default, lines 34-48.
AddrDefault ==
    [ipnet |-> Net(V4(0, 0, 0, 0), 0), label |-> "", flags |-> 0, scope |-> 0,
     peer |-> None, broadcast |-> None, link_index |-> 0]

\* Addr::try_from, lines 150-179: the fold over the attributes.  acc.ok is
\* FALSE once a `?` has returned the error.
RECURSIVE addr_attrs(_, _, _)
addr_attrs(m, i, acc) ==
    IF ~acc.ok \/ i > Len(m.nlas) THEN acc
    ELSE LET a == m.nlas[i]
             family == m.header.family
             ip == bytes_to_ip(a.val, family)
             failed == [acc EXCEPT !.ok = FALSE]
         IN  addr_attrs(m, i + 1,
               CASE a.tag = "Address" ->
                      IF ip.ok /\ prefix_ok(ip.v, m.header.prefix_len)
                      THEN [acc EXCEPT !.dst = Some(Net(ip.v, m.header.prefix_len))]
                      ELSE failed
                 [] a.tag = "Local" ->
                      IF ip.ok /\ prefix_ok(ip.v, (Len(a.val) * 8) % 256)
                      THEN [acc EXCEPT !.local = Some(Net(ip.v, (Len(a.val) * 8) % 256))]
                      ELSE failed
                 [] a.tag = "Label" -> [acc EXCEPT !.addr.label = a.val]
                 [] a.tag = "Broadcast" ->
                      IF ip.ok THEN [acc EXCEPT !.addr.broadcast = Some(ip.v)]
                      ELSE failed
                 [] a.tag = "Flags" -> [acc EXCEPT !.addr.flags = a.val]
                 [] OTHER -> acc)

\* Variant of Addr_try_from in which local is the address whenever present.
Addr_try_from_local_first(m) ==
    LET f == addr_attrs(m, 1, [ok |-> TRUE,
                               addr |-> [AddrDefault EXCEPT
                                            !.link_index = m.header.index],
                               dst |-> None, local |-> None])
        a == IF f.local # None
             THEN [f.addr EXCEPT !.ipnet = f.local[1], !.peer = f.dst]
             ELSE IF f.dst # None
                  THEN [f.addr EXCEPT !.ipnet = f.dst[1]]
                  ELSE f.addr
    IN  IF f.ok THEN [ok |-> TRUE, addr |-> [a EXCEPT !.scope = m.header.scope]]
        ELSE [ok |-> FALSE, addr |-> AddrDefault]

\* Addr::try_from, lines 143-195.
Addr_try_from(m) ==
    LET f == addr_attrs(m, 1, [ok |-> TRUE,
                               addr |-> [AddrDefault EXCEPT
                                            !.link_index = m.header.index],
                               dst |-> None, local |-> None])
        a == IF f.local # None
             THEN IF /\ m.header.family = FAMILY_V4
                     /\ f.dst # None
                     /\ f.dst[1].ip = f.local[1].ip
                  THEN [f.addr EXCEPT !.ipnet = f.dst[1]]
                  ELSE [f.addr EXCEPT !.ipnet = f.local[1], !.peer = f.dst]
             ELSE IF f.dst # None
                  THEN [f.addr EXCEPT !.ipnet = f.dst[1]]
                  ELSE f.addr
    IN  IF f.ok THEN [ok |-> TRUE, addr |-> [a EXCEPT !.scope = m.header.scope]]
        ELSE [ok |-> FALSE, addr |-> AddrDefault]

\* The addresses callers pass: every IPv4 prefix length on two networks, an
\* IPv6 network; with and without peer, explicit broadcast and label.
AddrNets ==
    {Net(ip, p) : ip \in {V4(192, 168, 1, 0), V4(10, 0, 77, 4)}, p \in 0..32}
    \cup {Net(V6(254, 1), 64)}
AddrArgs ==
    {[op |-> "addr", link_idx |-> 3, req_type |-> rt,
      addr |-> [AddrDefault EXCEPT !.ipnet = n, !.peer = pe,
                                   !.broadcast = bc, !.label = lb]] :
        rt \in {"Add", "Del", "Get"}, n \in AddrNets,
        pe \in {None, Some(Net(V4(10, 0, 77, 9), 32))},
        bc \in {None, Some(V4(10, 0, 77, 200))},
        lb \in {"", "eth0:1"}}

InitAddr ==
    /\ InitHandle
    /\ arg \in AddrArgs
    /\ msg = NoCall
    /\ res = NoCall
    /\ stage = "called"

\* addr_add / addr_del: addr_handle builds the request and hands it to
\* execute on a handle of its own; the outcome of execute is returned, and
\* msg is the request the socket took (none when the send fails).
AddrHandle ==
    /\ stage = "called"
    /\ LET r == addr_handle(arg.link_idx, arg.addr, arg.req_type)
       IN  IF r.ok
           THEN \E o \in Outcomes :
                   /\ msg' = IF o = "SendErr" THEN NoCall ELSE r
                   /\ res' = [ok |-> o = "Ok", err |-> o]
           ELSE /\ msg' = NoCall
                /\ res' = [ok |-> FALSE, err |-> "panic"]
    /\ stage' = "returned"
    /\ UNCHANGED <<arg, svars>>

\* The request decoded back: Addr::try_from on the AddressMessage built.
AddrFromMessage ==
    /\ stage = "returned"
    /\ msg # NoCall
    /\ res' = Addr_try_from(msg.m)
    /\ stage' = "decoded"
    /\ UNCHANGED <<arg, msg, svars>>

NextAddr == AddrHandle \/ AddrFromMessage

\* Address add and delete, for every address of AddrArgs.
SpecAddr == InitAddr /\ [][NextAddr]_vars

\* ----------------------------------------------------------- route.rs
MaxReply == 2       \* messages in the Vec execute returns to a listing

RT_TABLE_MAIN == 254
RTM_F_CLONED == 512
RT_FILTER_OIF == 64
RT_FILTER_TABLE == 1024

\* Route::default with the fields msg_to_route and the filters use.
RouteDefault ==
    [link_index |-> 0, dst |-> None, src |-> None, gw |-> None,
     protocol |-> 0, priority |-> 0, family |-> 0, table |-> None,
     type |-> 0, tos |-> 0, flags |-> 0, mpls_dst |-> None]

\* msg_to_route, lines 269-297: the fold over the attributes.
RECURSIVE route_attrs(_, _, _)
route_attrs(m, i, acc) ==
    IF ~acc.ok \/ i > Len(m.nlas) THEN acc
    ELSE LET a == m.nlas[i]
             ip == bytes_to_ip(a.val, acc.route.family % 256)
             failed == [acc EXCEPT !.ok = FALSE]
         IN  route_attrs(m, i + 1,
               CASE a.tag = "Gateway" ->
                      IF ip.ok THEN [acc EXCEPT !.route.gw = Some(ip.v)]
                      ELSE failed
                 [] a.tag = "Table" -> [acc EXCEPT !.route.table = Some(a.val)]
                 [] a.tag = "Oif" -> [acc EXCEPT !.route.link_index = a.val]
                 [] a.tag = "Priority" -> [acc EXCEPT !.route.priority = a.val]
                 [] a.tag = "Destination" ->
                      IF ip.ok /\ prefix_ok(ip.v, m.header.destination_prefix_length)
                      THEN [acc EXCEPT !.route.dst =
                              Some(Net(ip.v, m.header.destination_prefix_length))]
                      ELSE failed
                 [] a.tag = "PrefSource" ->
                      IF ip.ok THEN [acc EXCEPT !.route.src = Some(ip.v)]
                      ELSE failed
                 [] OTHER -> acc)

\* msg_to_route, lines 256-299.
msg_to_route(m) ==
    IF m.ty # "NewRoute" THEN [ok |-> FALSE, route |-> RouteDefault]
    ELSE route_attrs(m, 1,
            [ok |-> TRUE,
             route |-> [RouteDefault EXCEPT
                           !.protocol = m.header.protocol,
                           !.family = m.header.address_family,
                           !.table = Some(m.header.table),
                           !.type = m.header.kind,
                           !.tos = m.header.tos,
                           !.flags = m.header.flags]])

\* Variant of is_cloned that takes no route for a clone.
is_cloned_never(route) == FALSE

\* route_list_filtered, line 235.
is_cloned(route) == BitAnd(route.flags, RTM_F_CLONED) # 0

\* Variant of table_excluded that looks at the mask alone.
table_excluded_mask_only(route, route_filter, filter_mask) ==
    /\ route.table # None
    /\ route.table[1] # RT_TABLE_MAIN
    /\ BitAnd(filter_mask, RT_FILTER_TABLE) = 0

\* Variant of table_excluded that treats the main table as any other.
table_excluded_all(route, route_filter, filter_mask) ==
    /\ route.table # None
    /\ \/ route_filter = None
       \/ route_filter # None /\ BitAnd(filter_mask, RT_FILTER_TABLE) = 0

\* route_list_filtered, lines 238-245.
table_excluded(route, route_filter, filter_mask) ==
    /\ route.table # None
    /\ route.table[1] # RT_TABLE_MAIN
    /\ \/ route_filter = None
       \/ route_filter # None /\ BitAnd(filter_mask, RT_FILTER_TABLE) = 0

\* route_list_filtered, lines 246-250.
oif_excluded(route, route_filter, filter_mask) ==
    /\ route_filter # None
    /\ BitAnd(filter_mask, RT_FILTER_OIF) # 0
    /\ route.link_index # route_filter[1].link_index

\* route_list_filtered, lines 232-253: the loop over the reply, from message
\* i on, with the routes kept so far.
RECURSIVE route_loop(_, _, _, _, _)
route_loop(vec, i, route_filter, filter_mask, routes) ==
    IF i > Len(vec) THEN [ok |-> TRUE, routes |-> routes]
    ELSE LET r == msg_to_route(vec[i])
         IN  IF ~r.ok THEN [ok |-> FALSE, routes |-> <<>>]
             ELSE IF \/ is_cloned(r.route)
                     \/ table_excluded(r.route, route_filter, filter_mask)
                     \/ oif_excluded(r.route, route_filter, filter_mask)
             THEN route_loop(vec, i + 1, route_filter, filter_mask, routes)
             ELSE route_loop(vec, i + 1, route_filter, filter_mask,
                             Append(routes, r.route))

\* route_list_filtered, lines 222-254; reply is what execute returned for
\* the dump request.
route_list_filtered(family, route_filter, filter_mask, reply) ==
    IF ~reply.ok THEN [ok |-> FALSE, routes |-> <<>>]
    ELSE route_loop(reply.vec, 1, route_filter, filter_mask, <<>>)

\* route_list, lines 213-220.
route_list(link_id, family, reply) ==
    route_list_filtered(
        family,
        IF link_id # None
        THEN Some([RouteDefault EXCEPT !.link_index = link_id[1]])
        ELSE None,
        RT_FILTER_OIF,
        reply)

\* A NewRoute message of the kernel's dump.
RouteMsg(table, flags, attrs) ==
    [ty |-> "NewRoute",
     header |-> [address_family |-> FAMILY_V4, table |-> table,
                 flags |-> flags, protocol |-> 3, kind |-> 1, tos |-> 0,
                 destination_prefix_length |-> 24],
     nlas |-> <<Nla("Destination", <<10, 0, 77, 0>>)>> \o attrs]

\* The messages of a dump: routes of the main table and of others, by header
\* and by attribute, cloned and not, on two links; a route whose gateway
\* does not decode; a message that is no route.
RouteMsgs ==
    {RouteMsg(t[1], fl, t[2] \o <<Nla("Oif", oif)>>) :
        t \in {<<254, <<>>>>, <<254, <<Nla("Table", 300)>>>>,
               <<100, <<>>>>, <<0, <<Nla("Table", 254)>>>>,
               <<0, <<Nla("Table", 300)>>>>},
        fl \in {0, 512}, oif \in {1, 2}}
    \cup {RouteMsg(254, 768, <<Nla("Oif", 1), Nla("Gateway", <<10, 0, 77, 1>>)>>),
          RouteMsg(254, 0, <<Nla("Oif", 1), Nla("Gateway", <<10, 0, 77>>)>>),
          [ty |-> "NewLink", header |-> NoCall, nlas |-> <<>>]}

RECURSIVE SeqsOf(_, _)
SeqsOf(S, n) ==
    IF n = 0 THEN {<<>>}
    ELSE {<<x>> \o q : x \in S, q \in SeqsOf(S, n - 1)}

\* What execute returns to a listing: a Vec of up to MaxReply messages, or
\* an error.
RouteReplies ==
    {[ok |-> TRUE, vec |-> v] :
        v \in UNION {SeqsOf(RouteMsgs, n) : n \in 0..MaxReply}}
    \cup {[ok |-> FALSE, vec |-> <<>>]}

RouteFilters == {None} \cup {Some([RouteDefault EXCEPT !.link_index = l]) : l \in {1, 2}}
RouteArgs ==
    {[op |-> "route_list_filtered", family |-> FAMILY_V4,
      route_filter |-> f, filter_mask |-> k] :
        f \in RouteFilters, k \in {0, 64, 1024, 1088}}
    \cup {[op |-> "route_list", family |-> FAMILY_V4, link_id |-> l] :
             l \in {None, Some(1)}}

InitRoute ==
    /\ InitHandle
    /\ arg \in RouteArgs
    /\ msg = NoCall
    /\ res = NoCall
    /\ stage = "called"

\* route_list_filtered: the dump is requested on a handle of its own and
\* the reply is filtered.
RouteListFiltered ==
    /\ stage = "called"
    /\ arg.op = "route_list_filtered"
    /\ \E reply \in RouteReplies :
          /\ msg' = reply
          /\ res' = route_list_filtered(arg.family, arg.route_filter,
                                        arg.filter_mask, reply)
    /\ stage' = "returned"
    /\ UNCHANGED <<arg, svars>>

\* route_list.
RouteList ==
    /\ stage = "called"
    /\ arg.op = "route_list"
    /\ \E reply \in RouteReplies :
          /\ msg' = reply
          /\ res' = route_list(arg.link_id, arg.family, reply)
    /\ stage' = "returned"
    /\ UNCHANGED <<arg, svars>>

NextRoute == RouteListFiltered \/ RouteList

\* Route listing, for every filter and mask of RouteArgs and every reply.
SpecRoute == InitRoute /\ [][NextRoute]_vars

\* ------------------------------------------------------------ link.rs
MaxInfos == 2       \* entries of the link-info block of a reply

IFF_UP == 1
IFF_BROADCAST == 2
IFF_LOOPBACK == 8
IFF_POINTOPOINT == 16
IFF_PROMISC == 256
IFF_ALLMULTI == 512
IFF_MULTICAST == 4096
RTEXT_FILTER_VF == 1

\* LinkAttrs::default, lines 59-88 (statistics and encap_type, which come
\* from other crates' parsers and tables, are left out; phys_switch_id is
\* kept as its four bytes in native order).
LinkAttrsDefault ==
    [index |-> 0, mtu |-> 0, tx_q_len |-> 0, name |-> "",
     hardware_addr |-> None, flags |-> 0, raw_flags |-> 0,
     parent_index |-> 0, master_index |-> 0, namespace |-> None,
     alias |-> "", promisc |-> 0, allmulti |-> 0, multi |-> 0,
     oper_state |-> "Unknown", phys_switch_id |-> <<0, 0, 0, 0>>, net_ns_id |-> 0,
     num_tx_queues |-> 0, num_rx_queues |-> 0, gso_max_size |-> 0,
     gso_max_segs |-> 0, group |-> 0]

\* nl_type.rs: the defaults of the kind descriptors.
VethDefault ==
    [peer_name |-> "", peer_hardware_addr |-> "",
     peer_namespace |-> [ns |-> "NsPid", id |-> 0]]
BridgeDefault ==
    [multicast_snooping |-> None, ageing_time |-> None, hello_time |-> None,
     vlan_filtering |-> None, vlan_filtering_pvid |-> None]
TuntapDefault ==
    [mode |-> 0, flags |-> 0, non_persist |-> FALSE, queues |-> 0,
     owner |-> 0, group |-> 0]
VxlanDefault ==
    [vxlan_id |-> 0, vtep_dev_index |-> 0, src_addr |-> None, group |-> None,
     ttl |-> 0, tos |-> 0, learning |-> FALSE, proxy |-> FALSE, rsc |-> FALSE,
     l2miss |-> FALSE, l3miss |-> FALSE, udp_csum |-> FALSE,
     udp6_zero_csum_tx |-> FALSE, udp6_zero_csum_rx |-> FALSE,
     no_age |-> FALSE, gbp |-> FALSE, flow_based |-> FALSE, age |-> 0,
     limit |-> 0, port |-> 0, port_low |-> 0, port_high |-> 0]

\* LinkKind, lines 125-132: the variant and its descriptor.
LinkKind(kind, v) == [kind |-> kind, v |-> v]
Device == LinkKind("Device", NoCall)
Link(link_attrs, link_kind) == [link_attrs |-> link_attrs, link_kind |-> link_kind]

\* A failure of a domain operation; a panic (unimplemented!, todo!) is one
\* that does not come back as an Err value.
Failure(err, panic) == [ok |-> FALSE, err |-> err, panic |-> panic]

\* ---- decode
\* Variant of info_kind that takes a device of unknown kind for a plain one.
info_kind_lenient(kind) ==
    CASE kind = "bridge" -> [ok |-> TRUE, kind |-> LinkKind("Bridge", BridgeDefault)]
      [] kind = "veth" -> [ok |-> TRUE, kind |-> LinkKind("Veth", VethDefault)]
      [] kind = "iptun" -> [ok |-> TRUE, kind |-> LinkKind("Tuntap", TuntapDefault)]
      [] kind = "tun" -> [ok |-> TRUE, kind |-> LinkKind("Tuntap", TuntapDefault)]
      [] kind = "vxlan" -> [ok |-> TRUE, kind |-> LinkKind("Vxlan", VxlanDefault)]
      [] OTHER -> [ok |-> TRUE, kind |-> Device]

\* link_deserialize, lines 646-666: the variant of a kind tag; any other tag
\* is unimplemented!().
info_kind(kind) ==
    CASE kind = "bridge" -> [ok |-> TRUE, kind |-> LinkKind("Bridge", BridgeDefault)]
      [] kind = "veth" -> [ok |-> TRUE, kind |-> LinkKind("Veth", VethDefault)]
      [] kind = "iptun" -> [ok |-> TRUE, kind |-> LinkKind("Tuntap", TuntapDefault)]
      [] kind = "tun" -> [ok |-> TRUE, kind |-> LinkKind("Tuntap", TuntapDefault)]
      [] kind = "vxlan" -> [ok |-> TRUE, kind |-> LinkKind("Vxlan", VxlanDefault)]
      [] OTHER -> [ok |-> FALSE, kind |-> Device]

\* link_deserialize, lines 643-690: the entries of one link-info block.
RECURSIVE link_infos(_, _, _)
link_infos(infos, i, acc) ==
    IF ~acc.ok \/ i > Len(infos) THEN acc
    ELSE LET info == infos[i]
             k == info_kind(info.val)
         IN  link_infos(infos, i + 1,
               CASE info.tag = "Kind" ->
                      IF k.ok THEN [acc EXCEPT !.link_kind = Some(k.kind)]
                      ELSE [acc EXCEPT !.ok = FALSE]
                 [] info.tag \in {"Data", "PortData", "PortKind"} -> acc
                 [] OTHER -> [acc EXCEPT !.ok = FALSE])

\* link_deserialize, lines 575-699: the fold over the attributes.
RECURSIVE link_attrs_fold(_, _, _)
link_attrs_fold(nlas, i, acc) ==
    IF ~acc.ok \/ i > Len(nlas) THEN acc
    ELSE LET a == nlas[i]
         IN  link_attrs_fold(nlas, i + 1,
               CASE a.tag = "IfName" -> [acc EXCEPT !.base.name = a.val]
                 [] a.tag = "Address" ->
                      [acc EXCEPT !.base.hardware_addr =
                          Some(IF Len(a.val) = 6 THEN a.val
                               ELSE <<0, 0, 0, 0, 0, 0>>)]
                 [] a.tag = "Mtu" -> [acc EXCEPT !.base.mtu = a.val]
                 [] a.tag = "Link" -> [acc EXCEPT !.base.parent_index = a.val]
                 [] a.tag = "Master" -> [acc EXCEPT !.base.master_index = a.val]
                 [] a.tag = "TxQueueLen" -> [acc EXCEPT !.base.tx_q_len = a.val]
                 [] a.tag = "IfAlias" -> [acc EXCEPT !.base.alias = a.val]
                 [] a.tag = "OperState" -> [acc EXCEPT !.base.oper_state = a.val]
                 [] a.tag = "PhysSwitchId" ->
                      IF Len(a.val) = 4
                      THEN [acc EXCEPT !.base.phys_switch_id = a.val]
                      ELSE acc
                 [] a.tag = "NetnsId" -> [acc EXCEPT !.base.net_ns_id = a.val]
                 [] a.tag = "GsoMaxSegs" -> [acc EXCEPT !.base.gso_max_segs = a.val]
                 [] a.tag = "GsoMaxSize" -> [acc EXCEPT !.base.gso_max_size = a.val]
                 [] a.tag = "NumTxQueues" -> [acc EXCEPT !.base.num_tx_queues = a.val]
                 [] a.tag = "NumRxQueues" -> [acc EXCEPT !.base.num_rx_queues = a.val]
                 [] a.tag = "Group" -> [acc EXCEPT !.base.group = a.val]
                 [] a.tag = "Info" -> link_infos(a.val, 1, acc)
                 [] a.tag = "NetNsFd" -> [acc EXCEPT !.base.net_ns_id = a.val]
                 [] OTHER -> acc)

LinkMessageTypes ==
    {"NewLink", "DelLink", "GetLink", "SetLink", "NewLinkProp", "DelLinkProp"}

\* link_deserialize, lines 553-708.  The accessors of rtnl_msg_ext.rs are
\* unimplemented!() for a message that is no link message.
link_deserialize(m) ==
    IF m.ty \notin LinkMessageTypes
    THEN [ok |-> FALSE, err |-> "Unimplemented", panic |-> TRUE, link |-> None]
    ELSE LET flags == m.header.flags
             base == [LinkAttrsDefault EXCEPT
                         !.index = m.header.index,
                         !.raw_flags = flags,
                         !.net_ns_id = -1,
                         !.promisc = IF BitAnd(flags, IFF_PROMISC) # 0 THEN 1 ELSE 0,
                         !.allmulti = IF BitAnd(flags, IFF_ALLMULTI) # 0 THEN 1 ELSE 0,
                         !.multi = IF BitAnd(flags, IFF_MULTICAST) # 0 THEN 1 ELSE 0]
             f == link_attrs_fold(m.nlas, 1,
                     [ok |-> TRUE, base |-> base, link_kind |-> None])
         IN  IF ~f.ok
             THEN [ok |-> FALSE, err |-> "Unimplemented", panic |-> TRUE,
                   link |-> None]
             ELSE [ok |-> TRUE, err |-> "", panic |-> FALSE,
                   link |-> Some(Link(f.base,
                                      IF f.link_kind = None THEN Device
                                      ELSE f.link_kind[1]))]

\* Variant of unique_link that takes the first of several.
unique_link_first(resp) ==
    IF Len(resp) = 0
    THEN [ok |-> TRUE, err |-> "", panic |-> FALSE, link |-> None]
    ELSE link_deserialize(resp[1])

\* link_by_name, lines 180-189, and link_by_index, lines 161-170: the one
\* link of the response.
unique_link(resp) ==
    IF Len(resp) = 0
    THEN [ok |-> TRUE, err |-> "", panic |-> FALSE, link |-> None]
    ELSE IF Len(resp) > 1
    THEN [ok |-> FALSE, err |-> "Ambiguous", panic |-> FALSE, link |-> None]
    ELSE link_deserialize(resp[1])

\* link_by_name, lines 173-190; reply is what execute returned for the
\* request.
link_by_name(name, reply) ==
    [request |-> [ty |-> "GetLink",
                  header |-> [index |-> 0, flags |-> 0, interface_family |-> 0],
                  nlas |-> <<Nla("ExtMask", RTEXT_FILTER_VF), Nla("IfName", name)>>,
                  flags |-> NLM_F_ACK],
     result |-> IF ~reply.ok
                THEN [ok |-> FALSE, err |-> reply.err, panic |-> FALSE,
                      link |-> None]
                ELSE unique_link(reply.vec)]

\* link_by_index, lines 157-171.
link_by_index(index, reply) ==
    [request |-> [ty |-> "GetLink",
                  header |-> [index |-> index, flags |-> 0, interface_family |-> 0],
                  nlas |-> <<>>,
                  flags |-> NLM_F_ACK],
     result |-> IF ~reply.ok
                THEN [ok |-> FALSE, err |-> reply.err, panic |-> FALSE,
                      link |-> None]
                ELSE unique_link(reply.vec)]

\* ---- encode
\* get_link_kind, lines 541-550.
get_link_kind(link_kind) ==
    CASE link_kind.kind = "Veth" -> "veth"
      [] link_kind.kind = "Bridge" -> "bridge"
      [] link_kind.kind = "Device" -> "dummy"
      [] link_kind.kind = "Tuntap" -> "iptun"
      [] link_kind.kind = "Dummy" -> "dummy"
      [] link_kind.kind = "Vxlan" -> "vxlan"

\* Variant of vxlan_ageing in which a positive age wins over no_age.
vxlan_ageing_age_first(vxlan) ==
    IF vxlan.age > 0 THEN <<Nla("Ageing", vxlan.age)>>
    ELSE IF vxlan.no_age THEN <<Nla("Ageing", 0)>>
    ELSE <<>>

\* add_vxlan_attrs, lines 506-510.
vxlan_ageing(vxlan) ==
    IF vxlan.no_age THEN <<Nla("Ageing", 0)>>
    ELSE IF vxlan.age > 0 THEN <<Nla("Ageing", vxlan.age)>>
    ELSE <<>>

\* Variant of vxlan_port_range that emits a range with one bound set.
vxlan_port_range_either(vxlan) ==
    IF vxlan.port_low > 0 \/ vxlan.port_high > 0
    THEN <<Nla("PortRange", <<vxlan.port_low, vxlan.port_high>>)>>
    ELSE <<>>

\* add_vxlan_attrs, lines 518-520.
vxlan_port_range(vxlan) ==
    IF vxlan.port_low > 0 /\ vxlan.port_high > 0
    THEN <<Nla("PortRange", <<vxlan.port_low, vxlan.port_high>>)>>
    ELSE <<>>

\* One attribute when the condition holds.
PushIf(cond, attr) == IF cond THEN <<attr>> ELSE <<>>

\* add_vxlan_attrs, lines 448-520: the nested VXLAN data.
vxlan_data(vxlan) ==
    <<Nla("Id", vxlan.vxlan_id)>>
    \o PushIf(vxlan.vtep_dev_index > 0, Nla("Link", vxlan.vtep_dev_index))
    \o (IF vxlan.src_addr = None THEN <<>>
        ELSE IF vxlan.src_addr[1].fam = "V4"
        THEN <<Nla("Local", ip_to_bytes(vxlan.src_addr[1]))>>
        ELSE <<Nla("Local6", ip_to_bytes(vxlan.src_addr[1]))>>)
    \o (IF vxlan.group = None THEN <<>>
        ELSE IF vxlan.group[1].fam = "V4"
        THEN <<Nla("Group", ip_to_bytes(vxlan.group[1]))>>
        ELSE <<Nla("Group6", ip_to_bytes(vxlan.group[1]))>>)
    \o PushIf(vxlan.ttl > 0, Nla("Ttl", vxlan.ttl % 256))
    \o PushIf(vxlan.tos > 0, Nla("Tos", vxlan.tos % 256))
    \o PushIf(vxlan.learning, Nla("Learning", 1))
    \o PushIf(vxlan.proxy, Nla("Proxy", 1))
    \o PushIf(vxlan.rsc, Nla("Rsc", 1))
    \o PushIf(vxlan.l2miss, Nla("L2Miss", 1))
    \o PushIf(vxlan.l3miss, Nla("L3Miss", 1))
    \o PushIf(vxlan.udp6_zero_csum_tx, Nla("UDPZeroCsumTX", 1))
    \o PushIf(vxlan.udp6_zero_csum_rx, Nla("UDPZeroCsumRX", 1))
    \o PushIf(vxlan.udp_csum, Nla("UDPCsum", 1))
    \o PushIf(vxlan.gbp, Nla("Gbp", 1))
    \o vxlan_ageing(vxlan)
    \o PushIf(vxlan.limit > 0, Nla("Limit", vxlan.limit))
    \o PushIf(vxlan.port > 0, Nla("Port", vxlan.port))
    \o vxlan_port_range(vxlan)

\* add_vxlan_attrs, lines 447-523: the link-info attribute with the data.
add_vxlan_attrs(link_info_nlas, vxlan) ==
    <<Nla("Info", link_info_nlas \o <<Nla("Data", [kind |-> "Vxlan",
                                                   v |-> vxlan_data(vxlan)])>>)>>

\* link_modify, lines 360-369 and 395-403.
namespace_attr(namespace) ==
    IF namespace.ns = "NsPid" THEN Nla("NetNsPid", namespace.id)
    ELSE Nla("NetNsFd", namespace.id)

\* link_modify, lines 374-406: the peer of a veth pair.
veth_peer(base, veth) ==
    [header |-> [index |-> 0, flags |-> 0, change_mask |-> 0],
     nlas |-> <<Nla("IfName", veth.peer_name),
                Nla("TxQueueLen", base.tx_q_len)>>
              \o PushIf(base.num_tx_queues > 0, Nla("NumTxQueues", base.num_tx_queues))
              \o PushIf(base.num_rx_queues > 0, Nla("NumRxQueues", base.num_rx_queues))
              \o PushIf(base.mtu > 0, Nla("Mtu", base.mtu))
              \o <<namespace_attr(veth.peer_namespace)>>]

\* link_modify, lines 415-431: the nested bridge data.
bridge_data(bridge) ==
    (IF bridge.multicast_snooping = None THEN <<>>
     ELSE <<Nla("MulticastSnooping",
                IF bridge.multicast_snooping[1] THEN 1 ELSE 0)>>)
    \o (IF bridge.ageing_time = None THEN <<>>
        ELSE <<Nla("AgeingTime", bridge.ageing_time[1])>>)
    \o (IF bridge.vlan_filtering = None THEN <<>>
        ELSE <<Nla("VlanFiltering", IF bridge.vlan_filtering[1] THEN 1 ELSE 0)>>)
    \o (IF bridge.vlan_filtering_pvid = None THEN <<>>
        ELSE <<Nla("VlanDefaultPvid", bridge.vlan_filtering_pvid[1])>>)

\* link_modify, lines 372-441: the link-info attribute by kind.
link_info(link) ==
    LET link_info_nlas == <<Nla("Kind", get_link_kind(link.link_kind))>>
        k == link.link_kind
    IN  CASE k.kind = "Veth" ->
               <<Nla("Info", link_info_nlas
                     \o <<Nla("Data", [kind |-> "Veth",
                                       v |-> veth_peer(link.link_attrs, k.v)])>>)>>
          [] k.kind = "Bridge" ->
               <<Nla("Info", link_info_nlas
                     \o (IF bridge_data(k.v) # <<>>
                         THEN <<Nla("Data", [kind |-> "Bridge",
                                             v |-> bridge_data(k.v)])>>
                         ELSE <<>>))>>
          [] k.kind = "Vxlan" -> add_vxlan_attrs(link_info_nlas, k.v)
          [] OTHER -> <<>>

\* link_modify, lines 306-325: the flag bits a request may set.
SettableFlags ==
    {IFF_UP, IFF_BROADCAST, IFF_LOOPBACK, IFF_POINTOPOINT, IFF_MULTICAST}
RECURSIVE SumOf(_)
SumOf(S) == IF S = {} THEN 0 ELSE LET x == CHOOSE x \in S : TRUE
                                  IN  x + SumOf(S \ {x})

\* Variant of link_flags that passes every flag of the link on.
link_flags_all(base) == base.flags

\* link_modify, lines 306-325: flags and change mask of the request.
link_flags(base) == SumOf({f \in SettableFlags : BitAnd(base.flags, f) # 0})

\* link_modify, lines 301-445: the NewLink request; unimplemented!() for a
\* Device.
link_modify(link, flags) ==
    LET base == link.link_attrs
    IN  IF link.link_kind.kind = "Device"
        THEN [ok |-> FALSE, err |-> "Unimplemented", panic |-> TRUE,
              m |-> NoCall, flags |-> flags]
        ELSE [ok |-> TRUE, err |-> "", panic |-> FALSE,
              flags |-> flags,
              m |-> [ty |-> "NewLink",
                     header |-> [index |-> base.index,
                                 flags |-> link_flags(base),
                                 change_mask |-> link_flags(base)],
                     nlas |-> <<Nla("IfName", base.name)>>
                        \o PushIf(base.mtu > 0, Nla("Mtu", base.mtu))
                        \o PushIf(base.tx_q_len > 0, Nla("TxQueueLen", base.tx_q_len))
                        \o (IF base.hardware_addr # None
                            THEN <<Nla("Address", base.hardware_addr[1])>>
                            ELSE <<>>)
                        \o PushIf(base.num_tx_queues > 0,
                                  Nla("NumTxQueues", base.num_tx_queues))
                        \o PushIf(base.num_rx_queues > 0,
                                  Nla("NumRxQueues", base.num_rx_queues))
                        \o PushIf(base.gso_max_segs > 0,
                                  Nla("GsoMaxSegs", base.gso_max_segs))
                        \o PushIf(base.gso_max_size > 0,
                                  Nla("GsoMaxSize", base.gso_max_size))
                        \o PushIf(base.group > 0, Nla("Group", base.group))
                        \o (IF base.namespace = None THEN <<>>
                            ELSE <<namespace_attr(base.namespace[1])>>)
                        \o link_info(link)]]

\* link_add, lines 192-194: CREATE | EXCL | ACK.
link_add(link) == link_modify(link, 1540)

\* ---- the calls
\* Link-info entries of a reply: kind tags in and out of the supported set,
\* nested data, port kind, statistics.
InfoEntries ==
    {Nla("Kind", k) : k \in {"bridge", "veth", "iptun", "tun", "vxlan",
                             "dummy", "vlan", "bond", "other:foo"}}
    \cup {Nla("Data", NoCall), Nla("PortKind", "bridge"), Nla("Xstats", <<0>>)}

\* A NewLink message of a reply.
LinkMsg(index, flags, name, attrs) ==
    [ty |-> "NewLink",
     header |-> [index |-> index, flags |-> flags, change_mask |-> 0],
     nlas |-> <<Nla("IfName", name), Nla("Mtu", 1500)>> \o attrs]

\* The replies link_deserialize is given: no link-info block, or one of up
\* to MaxInfos entries; and a message that is no link message.
DecodeArgs ==
    {[op |-> "link_deserialize", m |-> LinkMsg(7, fl, "eth0", at)] :
        fl \in {0, 4352},
        at \in {<<>>, <<Nla("Address", <<2, 0, 0, 0, 0, 1>>)>>}
               \cup {<<Nla("Info", b)>> :
                        b \in UNION {SeqsOf(InfoEntries, n) : n \in 0..MaxInfos}}}
    \cup {[op |-> "link_deserialize",
           m |-> [ty |-> "NewAddress", header |-> NoCall, nlas |-> <<>>]]}

\* What execute returns to a lookup: an error, or up to MaxReply messages.
LookupMsgs ==
    {LinkMsg(2, 4099, "eth0", <<>>),
     LinkMsg(5, 4099, "br0", <<Nla("Info", <<Nla("Kind", "bridge")>>)>>),
     LinkMsg(9, 0, "eth0.9", <<Nla("Info", <<Nla("Kind", "vlan")>>)>>)}
LookupReplies ==
    {[ok |-> TRUE, err |-> "", vec |-> v] :
        v \in UNION {SeqsOf(LookupMsgs, n) : n \in 0..MaxReply}}
    \cup {[ok |-> FALSE, err |-> e, vec |-> <<>>] : e \in Outcomes \ {"Ok"}}
LookupArgs ==
    {[op |-> "link_by_name", name |-> n] : n \in {"eth0", "br0"}}
    \cup {[op |-> "link_by_index", index |-> i] : i \in {2, 9}}

\* The links callers add: VXLAN descriptors over the fields the encoder
\* tests, and one link of every other kind.
VxlanArgs ==
    {[VxlanDefault EXCEPT !.vxlan_id = 42, !.vtep_dev_index = vt,
                          !.src_addr = sa, !.learning = le, !.no_age = na,
                          !.age = ag, !.limit = li, !.port = po,
                          !.port_low = pl, !.port_high = ph] :
        vt \in {0, 3}, sa \in {None, Some(V4(10, 0, 77, 4)), Some(V6(254, 1))},
        le \in BOOLEAN, na \in BOOLEAN, ag \in {0, 300}, li \in {0, 10},
        po \in {0, 4789}, pl \in {0, 1000}, ph \in {0, 2000}}
LinkBases ==
    {[LinkAttrsDefault EXCEPT !.name = "vx0", !.flags = fl, !.mtu = mt] :
        fl \in {0, 4355}, mt \in {0, 1450}}
LinkKinds ==
    {LinkKind("Vxlan", v) : v \in VxlanArgs}
    \cup {LinkKind("Veth", [VethDefault EXCEPT !.peer_name = "vx1"]),
          LinkKind("Bridge", BridgeDefault),
          LinkKind("Bridge", [BridgeDefault EXCEPT !.vlan_filtering = Some(TRUE)]),
          LinkKind("Tuntap", TuntapDefault),
          LinkKind("Dummy", NoCall),
          Device}
FlagBases ==
    {[LinkAttrsDefault EXCEPT !.name = "br0", !.flags = fl] :
        fl \in {8, 16, 24, 768, 4379}}
\* A base with a hardware address, as the link of test_new_vxlan has.
HwBases ==
    {[LinkAttrsDefault EXCEPT !.name = "vxlan0",
                              !.hardware_addr = Some(<<2, 0, 0, 0, 0, 1>>)]}
LinkAddArgs ==
    {[op |-> "link_add", link |-> Link(b, k)] : b \in LinkBases, k \in LinkKinds}
    \cup {[op |-> "link_add", link |-> Link(b, LinkKind("Bridge", BridgeDefault))] :
             b \in FlagBases}
    \cup {[op |-> "link_add", link |-> Link(b, k)] :
             b \in HwBases,
             k \in {LinkKind("Bridge", BridgeDefault),
                    LinkKind("Vxlan", [VxlanDefault EXCEPT !.vxlan_id = 42])}}

InitLink ==
    /\ InitHandle
    /\ arg \in DecodeArgs \cup LookupArgs \cup LinkAddArgs
    /\ msg = NoCall
    /\ res = NoCall
    /\ stage = "called"

\* link_deserialize on a message of a reply.
LinkDeserialize ==
    /\ stage = "called"
    /\ arg.op = "link_deserialize"
    /\ msg' = arg.m
    /\ res' = link_deserialize(arg.m)
    /\ stage' = "returned"
    /\ UNCHANGED <<arg, svars>>

\* link_by_name: the request is executed on a handle of its own and the
\* response is looked at.
LinkByName ==
    /\ stage = "called"
    /\ arg.op = "link_by_name"
    /\ \E reply \in LookupReplies :
          /\ msg' = reply
          /\ res' = link_by_name(arg.name, reply).result
    /\ stage' = "returned"
    /\ UNCHANGED <<arg, svars>>

\* link_by_index.
LinkByIndex ==
    /\ stage = "called"
    /\ arg.op = "link_by_index"
    /\ \E reply \in LookupReplies :
          /\ msg' = reply
          /\ res' = link_by_index(arg.index, reply).result
    /\ stage' = "returned"
    /\ UNCHANGED <<arg, svars>>

\* link_add: link_modify builds the request and returns what execute says.
LinkAdd ==
    /\ stage = "called"
    /\ arg.op = "link_add"
    /\ LET r == link_add(arg.link)
       IN  IF r.ok
           THEN \E o \in Outcomes :
                   /\ msg' = IF o = "SendErr" THEN NoCall ELSE r
                   /\ res' = [ok |-> o = "Ok", err |-> o, panic |-> FALSE]
           ELSE /\ msg' = NoCall
                /\ res' = Failure(r.err, r.panic)
    /\ stage' = "returned"
    /\ UNCHANGED <<arg, svars>>

NextLink == LinkDeserialize \/ LinkByName \/ LinkByIndex \/ LinkAdd

\* The link operations, one call each.
SpecLink == InitLink /\ [][NextLink]_vars

\* ------------------------------------------------------------ route.rs: add and replace
RT_TABLE_UNSPEC == 0
RT_SCOPE_UNIVERSE == 0
RTPROT_BOOT == 3
RTN_UNICAST == 1
NLM_F_REPLACE == 256
NLM_F_EXCL == 512
NLM_F_CREATE == 1024

\* new_route_msg, lines 160-167.
new_route_msg ==
    [header |-> [address_family |-> 0, destination_prefix_length |-> 0,
                 table |-> RT_TABLE_MAIN, scope |-> RT_SCOPE_UNIVERSE,
                 protocol |-> RTPROT_BOOT, kind |-> RTN_UNICAST, flags |-> 0],
     nlas |-> <<>>]

\* Variant of route_unaddressed that lets every route through.
route_unaddressed_never(route) == FALSE

\* route_handle, line 170: nothing says where the route goes.
route_unaddressed(route) ==
    route.dst = None /\ route.src = None /\ route.gw = None /\ route.mpls_dst = None

\* route_handle, lines 186-195: the table the route names.
route_table(m, route) ==
    IF route.table # None /\ route.table[1] > 0
    THEN IF route.table[1] > 255
         THEN [m EXCEPT !.header.table = RT_TABLE_UNSPEC,
                        !.nlas = @ \o <<Nla("Table", route.table[1])>>]
         ELSE [m EXCEPT !.header.table = route.table[1]]
    ELSE m

\* route_handle, lines 169-211: the request, or the failure before any
\* handle is made.  m is the message handed to NetlinkHandle::new().execute.
route_handle(route, req_type, flags) ==
    IF route_unaddressed(route)
    THEN [ok |-> FALSE, err |-> "Bail", panic |-> FALSE, m |-> NoCall,
          flags |-> flags]
    ELSE LET gw == IF route.gw = None THEN V4(0, 0, 0, 0) ELSE route.gw[1]
             m1 == IF route.dst = None THEN new_route_msg
                   ELSE [new_route_msg EXCEPT
                            !.header.destination_prefix_length = route.dst[1].prefix,
                            !.nlas = @ \o <<Nla("Destination",
                                                ip_to_bytes(route.dst[1].ip))>>]
             m2 == [m1 EXCEPT !.nlas = @ \o <<Nla("Gateway", ip_to_bytes(gw))>>,
                              !.header.address_family = ip_to_family(gw),
                              !.header.flags = route.flags]
             m3 == route_table(m2, route)
             m4 == [m3 EXCEPT !.header.table = RT_TABLE_MAIN,
                              !.nlas = @ \o <<Nla("Oif", route.link_index)>>]
         IN  IF req_type = "Add"
             THEN [ok |-> TRUE, err |-> "", panic |-> FALSE,
                   m |-> [ty |-> "NewRoute", header |-> m4.header,
                          nlas |-> m4.nlas],
                   flags |-> flags]
             ELSE [ok |-> FALSE, err |-> "Unimplemented", panic |-> TRUE,
                   m |-> NoCall, flags |-> flags]

\* route_add_ecmp, lines 145-148.
route_add_ecmp(route) ==
    route_handle(route, "Add", BitOr(NLM_F_CREATE, NLM_F_ACK))

\* route_add, lines 150-153.
route_add(route) ==
    route_handle(route, "Add", BitOr(BitOr(NLM_F_CREATE, NLM_F_EXCL), NLM_F_ACK))

\* route_replace, lines 155-158.
route_replace(route) ==
    route_handle(route, "Add", BitOr(BitOr(NLM_F_CREATE, NLM_F_REPLACE), NLM_F_ACK))

\* The routes callers add: every combination of absent and present
\* destination, source, gateway and MPLS destination, and tables absent, 0,
\* within a byte and above it.
RouteAddRoutes ==
    {[RouteDefault EXCEPT !.link_index = 2, !.dst = d, !.src = s, !.gw = g,
                          !.mpls_dst = l, !.table = t] :
        d \in {None, Some(Net(V4(10, 0, 77, 0), 24))},
        s \in {None, Some(V4(10, 0, 77, 4))},
        g \in {None, Some(V4(10, 0, 77, 1)), Some(V6(254, 1))},
        l \in {None, Some(100)},
        t \in {None, Some(0), Some(100), Some(255), Some(300)}}
RouteAddArgs ==
    {[op |-> o, route |-> r] :
        o \in {"route_add", "route_add_ecmp", "route_replace"},
        r \in RouteAddRoutes}

InitRouteAdd ==
    /\ InitHandle
    /\ arg \in RouteAddArgs
    /\ msg = NoCall
    /\ res = NoCall
    /\ stage = "called"

\* What execute says of a request that was built; a failure before it
\* leaves no request.
RouteSent(r) ==
    IF r.ok
    THEN \E o \in Outcomes :
            /\ msg' = IF o = "SendErr" THEN NoCall ELSE r
            /\ res' = [ok |-> o = "Ok", err |-> o, panic |-> FALSE]
    ELSE /\ msg' = NoCall
         /\ res' = Failure(r.err, r.panic)

RouteAdd ==
    /\ stage = "called"
    /\ arg.op = "route_add"
    /\ RouteSent(route_add(arg.route))
    /\ stage' = "returned"
    /\ UNCHANGED <<arg, svars>>

RouteAddEcmp ==
    /\ stage = "called"
    /\ arg.op = "route_add_ecmp"
    /\ RouteSent(route_add_ecmp(arg.route))
    /\ stage' = "returned"
    /\ UNCHANGED <<arg, svars>>

RouteReplace ==
    /\ stage = "called"
    /\ arg.op = "route_replace"
    /\ RouteSent(route_replace(arg.route))
    /\ stage' = "returned"
    /\ UNCHANGED <<arg, svars>>

NextRouteAdd == RouteAdd \/ RouteAddEcmp \/ RouteReplace

\* Route add and replace, one call each.
SpecRouteAdd == InitRouteAdd /\ [][NextRouteAdd]_vars

\* ------------------------------------------------------------ link.rs: kind round trip
\* The reply a kernel gives for a link created with the kind tag request
\* carries: the same kind tag in its link-info block.
reply_of_kind(link) ==
    LinkMsg(7, link.link_attrs.flags, link.link_attrs.name,
            <<Nla("Info", <<Nla("Kind", get_link_kind(link.link_kind))>>)>>)

KindArgs == {[op |-> "kind_round_trip", link |-> a.link] : a \in LinkAddArgs}

InitKind ==
    /\ InitHandle
    /\ arg \in KindArgs
    /\ msg = NoCall
    /\ res = NoCall
    /\ stage = "called"

\* get_link_kind on the link, then link_deserialize on a reply with that tag.
KindRoundTrip ==
    /\ stage = "called"
    /\ arg.op = "kind_round_trip"
    /\ msg' = reply_of_kind(arg.link)
    /\ res' = link_deserialize(reply_of_kind(arg.link))
    /\ stage' = "returned"
    /\ UNCHANGED <<arg, svars>>

NextKind == KindRoundTrip

\* The kind tag of the encoder given to the decoder, for every link.
SpecKind == InitKind /\ [][NextKind]_vars

\* ------------------------------------------------------------ addr.rs: decode of a reply
\* The address messages of a reply: local and address attributes absent,
\* equal or different, in both orders, for both families, with a label or
\* none; and a local value too short for its family.
AddrBytes(family) ==
    IF family = FAMILY_V4
    THEN {ip_to_bytes(V4(10, 0, 77, 4)), ip_to_bytes(V4(10, 0, 77, 9))}
    ELSE {ip_to_bytes(V6(254, 1)), ip_to_bytes(V6(254, 2))}
AddrReplyAttrs(family) ==
    LET locals == {<<>>} \cup {<<Nla("Local", b)>> : b \in AddrBytes(family)}
                         \cup {<<Nla("Local", <<10, 0>>)>>}
        dsts == {<<>>} \cup {<<Nla("Address", b)>> : b \in AddrBytes(family)}
        labels == {<<>>, <<Nla("Label", "eth0")>>}
    IN  {l \o d \o b : l \in locals, d \in dsts, b \in labels}
        \cup {d \o l \o b : l \in locals, d \in dsts, b \in labels}
AddrDecodeArgs ==
    {[op |-> "addr_try_from",
      m |-> [header |-> [index |-> 3, scope |-> 0, prefix_len |-> p, family |-> f],
             nlas |-> at]] :
        f \in {FAMILY_V4, FAMILY_V6}, p \in {24, 32}, at \in AddrReplyAttrs(FAMILY_V4)}
    \cup {[op |-> "addr_try_from",
           m |-> [header |-> [index |-> 3, scope |-> 0, prefix_len |-> p,
                              family |-> FAMILY_V6],
                  nlas |-> at]] :
             p \in {64, 128}, at \in AddrReplyAttrs(FAMILY_V6)}

InitAddrDecode ==
    /\ InitHandle
    /\ arg \in AddrDecodeArgs
    /\ msg = NoCall
    /\ res = NoCall
    /\ stage = "called"

\* Addr::try_from on a message of a reply (as addr_list does for each).
AddrDecode ==
    /\ stage = "called"
    /\ arg.op = "addr_try_from"
    /\ msg' = arg.m
    /\ res' = Addr_try_from(arg.m)
    /\ stage' = "returned"
    /\ UNCHANGED <<arg, svars>>

NextAddrDecode == AddrDecode

\* Address decode, for every message of AddrDecodeArgs.
SpecAddrDecode == InitAddrDecode /\ [][NextAddrDecode]_vars

\* ------------------------------------------------------------ handle.rs: further sessions
\* Calls in a row on one handle, with datagrams left on the socket between
\* them.
SpecCalls == Init /\ [][NextCalls]_vars
\* A session whose reply ends in a failure after parts were received.
SpecFail == Init /\ [][NextFail]_vars
\* A session with frames that do not deserialize ahead of others.
SpecSkip == Init /\ [][NextSkip]_vars

\* ------------------------------------------------------------ claims
IsPrefix(a, b) == Len(a) <= Len(b) /\ a = SubSeq(b, 1, Len(a))
Bit(x, i) == (x \div (2 ^ i)) % 2

\* C1: when everything read from the socket in this execute is MULTIPART
\* inner frames with the current sequence number followed by one Done frame,
\* in any number of datagrams, execute returns Ok with exactly the bodies of
\* those inner frames in arrival order; until the Done frame is reached the
\* accumulated result is the bodies read so far.
C1_MultipartReassembly ==
    \A h \in Handles :
        /\ mp[h].st = "multi" /\ pc[h] = "recv" =>
              /\ IsPrefix(result[h], mp[h].bodies)
              /\ src[h] = <<>> => result[h] = mp[h].bodies
        /\ mp[h].st = "done" =>
              \/ pc[h] = "recv" /\ src[h] # <<>>
                    /\ IsPrefix(result[h], mp[h].bodies)
              \/ pc[h] = "idle" /\ outcome[h] = "Ok" /\ ret[h] = mp[h].bodies

C1_Witness ==
    \E h \in Handles :
        /\ mp[h].st = "done" /\ mp[h].n >= 2
        /\ pc[h] = "idle" /\ outcome[h] = "Ok"
        /\ Len(ret[h]) >= 3 /\ ret[h][1] # ret[h][2]

\* C2: once the loop has taken an inner-message frame with the current
\* sequence number and without the MULTIPART flag, execute has returned Ok,
\* the list returned ends with that message, and nothing more was taken from
\* the buffer or the socket.
C2_SingleReplyReturns ==
    \A h \in Handles :
        (/\ last[h].ty = "InnerMessage"
         /\ last[h].seq = seq[h]
         /\ Bit(last[h].fl, 1) = 0)
        => /\ pc[h] = "idle"
           /\ outcome[h] = "Ok"
           /\ ret[h] = result[h]
           /\ ret[h] # <<>>
           /\ ret[h][Len(ret[h])] = last[h].v
           /\ src[h] = <<>>

C2_Witness ==
    \E h \in Handles :
        /\ last[h].ty = "InnerMessage" /\ last[h].seq = seq[h]
        /\ Bit(last[h].fl, 1) = 0
        /\ pc[h] = "idle" /\ outcome[h] = "Ok"
        /\ Len(ret[h]) >= 2
        /\ unread[h] > 0

\* C3: a step of the receive loop on a frame whose sequence number is below
\* the current one leaves the loop running, records no outcome and leaves
\* the accumulated result as it was, whatever the frame's payload.
C3_StaleDiscarded ==
    [][\A h \in Handles :
          (/\ pc[h] = "recv"
           /\ src'[h] # src[h]
           /\ last'[h] # NoMsg
           /\ last'[h].seq < seq[h])
          => /\ pc'[h] = "recv"
             /\ outcome'[h] = "None"
             /\ result'[h] = result[h]]_vars

C3_Witness ==
    \E h \in Handles :
        /\ last[h].ty \in {"Done", "Error", "Overrun"}
        /\ last[h].seq < seq[h]
        /\ pc[h] = "recv"
        /\ result[h] # <<>>

\* C4: once the loop has taken a frame whose sequence number is above the
\* current one, execute has failed with a sequence mismatch and returned no
\* list.
C4_SeqMismatchFatal ==
    \A h \in Handles :
        (last[h] # NoMsg /\ last[h].seq > seq[h])
        => /\ pc[h] = "idle"
           /\ outcome[h] = "SeqMismatch"
           /\ ret[h] = <<>>

C4_Witness ==
    \E h \in Handles :
        /\ last[h] # NoMsg /\ last[h].seq > seq[h]
        /\ outcome[h] = "SeqMismatch"
        /\ result[h] # <<>>

\* The outcome the claim gives to an Error frame with status code c.
ErrorClass(c) ==
    CASE c = -19 -> "NotFound"
      [] c = -17 -> "AlreadyExists"
      [] c = 0 -> "Ok"
      [] OTHER -> "ErrorResponse"

\* C5: a step of the receive loop on an Error frame with the current sequence
\* number ends execute: with NotFound for code -19, AlreadyExists for -17,
\* a generic error for any other non-zero code, and for code zero with Ok and
\* the results accumulated before the frame.
C5_ErrorClassification ==
    [][\A h \in Handles :
          (/\ pc[h] = "recv"
           /\ src'[h] # src[h]
           /\ last'[h].ty = "Error"
           /\ last'[h].seq = seq[h])
          => /\ pc'[h] = "idle"
             /\ outcome'[h] = ErrorClass(last'[h].v)
             /\ ret'[h] = IF last'[h].v = 0 THEN result[h] ELSE <<>>]_vars

C5_Witness ==
    \E h \in Handles :
        /\ last[h].ty = "Error" /\ last[h].seq = seq[h] /\ last[h].v = 0
        /\ pc[h] = "idle" /\ outcome[h] = "Ok"
        /\ ret[h] # <<>>

\* C6 as stated: once decode has discarded a buffer whose declared length
\* could not be read, the loop has ended: nothing more is read into the
\* buffer and the call returns Ok.
C6_LoopEndsOnMalformed ==
    \A h \in Handles :
        lost[h] => /\ src[h] = <<>>
                   /\ pc[h] = "idle" => outcome[h] = "Ok"

\* C6, amended: a step of the receive loop on a buffer whose declared front
\* length cannot be read discards the whole buffer, keeps the accumulated
\* results, records no outcome and leaves the loop running, to read the next
\* datagram from the socket.
C6_DiscardAndContinue ==
    [][\A h \in Handles :
          (/\ pc[h] = "recv"
           /\ src[h] # <<>>
           /\ ~new_checked(src[h])
           /\ src'[h] # src[h])
          => /\ src'[h] = <<>>
             /\ pc'[h] = "recv"
             /\ outcome'[h] = "None"
             /\ result'[h] = result[h]
             /\ lost'[h]]_vars

C6_Witness ==
    \E h \in Handles :
        /\ lost[h]
        /\ pc[h] = "recv"
        /\ result[h] # <<>>
        /\ src[h] # <<>>

\* C7: an execute in which a socket send or a socket receive failed does not
\* return Ok.
C7_TransportFailureSurfaces ==
    \A h \in Handles :
        (io_failed[h] /\ pc[h] = "idle") => outcome[h] # "Ok"

\* C8: the counter starts at 0 and is the number of execute calls made, and
\* the request written by the k-th call, while that call waits for its reply,
\* is stamped k, the first one 1.
C8_SequenceCounter ==
    \A h \in Handles :
        /\ seq[h] = calls[h]
        /\ (pc[h] = "recv" /\ wire[h] # NoPacket)
              => wire[h].seq = calls[h] /\ wire[h].seq >= 1

C8_Witness ==
    \E h \in Handles :
        calls[h] = 2 /\ pc[h] = "recv" /\ wire[h] # NoPacket /\ wire[h].seq = 2

\* C9: a bit of the flags of a request written to the socket is set exactly
\* when it is REQUEST (bit 0), ACK (bit 2) or set in the caller's flags.
C9_RequestFlags ==
    \A h \in Handles :
        wire[h] # NoPacket =>
            \A i \in 0..15 :
                (Bit(wire[h].fl, i) = 1)
                    <=> (i = 0 \/ i = 2 \/ Bit(wire[h].arg, i) = 1)

C9_Witness ==
    \E h \in Handles :
        wire[h] # NoPacket /\ wire[h].arg = 769 /\ wire[h].fl = 773

\* C10: once the loop has taken a Noop or Overrun frame with the current
\* sequence number, execute has failed as unimplemented and returned no list.
C10_UnsupportedPayloadFails ==
    \A h \in Handles :
        (last[h].ty \in {"Noop", "Overrun"} /\ last[h].seq = seq[h])
        => /\ pc[h] = "idle"
           /\ outcome[h] = "Unimplemented"
           /\ ret[h] = <<>>

C10_Witness ==
    \E h \in Handles :
        /\ last[h].ty = "Overrun" /\ last[h].seq = seq[h]
        /\ outcome[h] = "Unimplemented"
        /\ result[h] # <<>>

\* Every return is Ok with the accumulated list, or a failure with no list.
ReturnShape(h) ==
    (pc[h] = "idle" /\ calls[h] > 0)
    => /\ outcome[h] \in Outcomes
       /\ outcome[h] = "Ok" => ret[h] = result[h]
       /\ outcome[h] # "Ok" => ret[h] = <<>>

\* The units of buf from position i on begin with a whole frame that ends a
\* call whose sequence number is s: Done, Error, Noop, Overrun, or an inner
\* message without the MULTIPART flag.
EndsCallAt(buf, i, s) ==
    /\ buf[i].ty # "Data"
    /\ buf[i].seq = s
    /\ new_checked(SubSeq(buf, i, Len(buf)))
    /\ LET p == deserialize(SubSeq(buf, i, i + buf[i].len - 1))
       IN  /\ p.ok
           /\ \/ p.msg.ty \in {"Done", "Error", "Noop", "Overrun"}
              \/ p.msg.ty = "InnerMessage" /\ Bit(p.msg.fl, 1) = 0

\* Position i of buf is where a frame of the datagram starts: the frames of
\* a datagram lie end to end, each as long as its header declares, so the
\* walk from the first unit arrives at i, over frames whose declared length
\* can be read.  A unit inside the declared length of a frame, and a unit
\* behind a header whose length cannot be read, start no frame.
RECURSIVE StartsFrame(_, _, _)
StartsFrame(buf, i, from) ==
    IF from = i THEN TRUE
    ELSE IF from > i THEN FALSE
    ELSE /\ new_checked(SubSeq(buf, from, Len(buf)))
         /\ StartsFrame(buf, i, from + buf[from].len)

\* The socket of h has delivered, or holds, a frame that ends the call.
TerminalInReach(h) ==
    \E buf \in {src[h]} \cup {sock[h][k] : k \in 1..Len(sock[h])} :
        \E i \in 1..Len(buf) :
            EndsCallAt(buf, i, seq[h]) /\ StartsFrame(buf, i, 1)

\* C11: every return is Ok with the accumulated list or a failure, and,
\* the reader's steps being taken fairly, a running execute returns whenever
\* the socket delivers a frame that ends the call (Done, Error,
\* non-multipart inner message, unsupported payload, with the current
\* sequence number), a frame being what the declared lengths delimit in its
\* datagram; stale frames, skipped frames and discarded datagrams before it
\* do not prevent the return.
C11_ReturnsWhenInReach ==
    /\ [](\A h \in Active : ReturnShape(h))
    /\ \A h \in Active :
          (pc[h] = "recv" /\ TerminalInReach(h)) ~> (pc[h] = "idle")

C11_Witness ==
    \E h \in Active :
        /\ pc[h] = "idle" /\ outcome[h] = "Ok"
        /\ last[h].ty = "Done" /\ last[h].seq = seq[h]
        /\ lost[h]
        /\ result[h] # <<>>

\* The part of the state that belongs to handle h.
StateOf(h) ==
    <<seq[h], sock[h], wire[h], pc[h], src[h], result[h], last[h],
      outcome[h], ret[h], calls[h], delivered[h], unread[h], lost[h],
      io_failed[h], mp[h]>>

\* C12: handles start with counter 0 and number their requests alike; in
\* every interleaving of two sessions a step changes the state of one handle
\* only, and the accumulated and the returned list of a session hold only
\* bodies that were delivered on its own socket.
C12_SessionsIndependent ==
    [][/\ \E h \in Handles :
             \A g \in Handles \ {h} : StateOf(g)' = StateOf(g)
       /\ \A h \in Handles :
             /\ \A i \in 1..Len(result'[h]) : result'[h][i] = OwnBody(h)
             /\ \A i \in 1..Len(ret'[h]) : ret'[h][i] = OwnBody(h)
             /\ seq'[h] = calls'[h]]_vars

C12_Witness ==
    /\ \A h \in Handles :
          /\ seq[h] = 1 /\ outcome[h] = "Ok" /\ pc[h] = "idle"
          /\ Len(ret[h]) >= 2
    /\ ret[1] # ret[2]

\* The broadcast address of IPv4 network n, octet by octet: the host part,
\* the low 32 - prefix bits of the address, is all ones.
NetworkBroadcast(n) ==
    [i \in 1..4 |->
        LET low == 32 - n.prefix - 8 * (4 - i)
            hb == IF low <= 0 THEN 0 ELSE IF low >= 8 THEN 8 ELSE low
        IN  n.ip.o[i] - (n.ip.o[i] % (2 ^ hb)) + (2 ^ hb) - 1]

BroadcastAttrs(m) == {i \in 1..Len(m.nlas) : m.nlas[i].tag = "Broadcast"}

\* C13: the request built for an IPv4 address without explicit broadcast
\* carries one broadcast attribute, the network's broadcast address, when
\* the prefix length is below 31, and none for /31 and /32; decoding the
\* request gives that broadcast address, respectively none.
C13_ImplicitBroadcast ==
    (/\ stage \in {"returned", "decoded"}
     /\ arg.op = "addr"
     /\ msg # NoCall
     /\ arg.addr.ipnet.ip.fam = "V4"
     /\ arg.addr.broadcast = None)
    => LET n == arg.addr.ipnet
           bs == BroadcastAttrs(msg.m)
       IN  /\ n.prefix < 31 =>
                 /\ Cardinality(bs) = 1
                 /\ \A i \in bs : msg.m.nlas[i].val = NetworkBroadcast(n)
           /\ n.prefix >= 31 => bs = {}
           /\ stage = "decoded" =>
                 /\ res.ok
                 /\ n.prefix < 31 =>
                       res.addr.broadcast
                           = Some([fam |-> "V4", o |-> NetworkBroadcast(n)])
                 /\ n.prefix >= 31 => res.addr.broadcast = None
                 /\ n = Net(V4(192, 168, 1, 0), 24) =>
                       res.addr.broadcast = Some(V4(192, 168, 1, 255))

C13_Witness ==
    /\ stage = "decoded"
    /\ arg.op = "addr"
    /\ arg.addr.ipnet = Net(V4(192, 168, 1, 0), 24)
    /\ arg.addr.broadcast = None
    /\ res.ok
    /\ res.addr.broadcast = Some(V4(192, 168, 1, 255))

\* The reply message at position i, as the kernel sent it: the table is the
\* last table attribute, or the header's; the link is the last Oif attribute.
LastAttr(m, tag, default) ==
    LET js == {j \in 1..Len(m.nlas) : m.nlas[j].tag = tag}
    IN  IF js = {} THEN default
        ELSE m.nlas[CHOOSE j \in js : \A k \in js : k <= j].val
TableOf(m) == LastAttr(m, "Table", m.header.table)
OifOf(m) == LastAttr(m, "Oif", 0)
ClonedMsg(m) == Bit(m.header.flags, 9) = 1

\* The filter and the mask route_list_filtered runs with.
FilterUsed ==
    IF arg.op = "route_list"
    THEN IF arg.link_id = None THEN None ELSE Some([link_index |-> arg.link_id[1]])
    ELSE arg.route_filter
MaskUsed == IF arg.op = "route_list" THEN RT_FILTER_OIF ELSE arg.filter_mask

\* The listing returned the route of reply message m.
Returned(m) ==
    \E i \in 1..Len(res.routes) :
        /\ res.routes[i].flags = m.header.flags
        /\ res.routes[i].table = Some(TableOf(m))
        /\ res.routes[i].link_index = OifOf(m)

Listed == stage = "returned" /\ arg.op \in {"route_list", "route_list_filtered"}
RoutesOfReply == {i \in 1..Len(msg.vec) : msg.vec[i].ty = "NewRoute"}

\* C14: whatever the filter and the mask, no route returned by
\* route_list_filtered or route_list has the kernel-cloned bit, and a reply
\* message with that bit has no route in the result.
C14_NoClonedRoute ==
    (Listed /\ res.ok) =>
        /\ \A i \in 1..Len(res.routes) : Bit(res.routes[i].flags, 9) = 0
        /\ \A i \in RoutesOfReply :
              ClonedMsg(msg.vec[i]) => ~Returned(msg.vec[i])

C14_Witness ==
    /\ Listed /\ res.ok
    /\ arg.op = "route_list_filtered"
    /\ arg.route_filter # None /\ arg.filter_mask = 1024
    /\ Len(msg.vec) = 2
    /\ ClonedMsg(msg.vec[1]) /\ TableOf(msg.vec[1]) = 254
    /\ ~ClonedMsg(msg.vec[2])
    /\ Len(res.routes) = 1

\* C15 as stated: every route of the main table (254) in the reply, not a
\* kernel clone, is in the result of a listing that succeeds.
C15_MainAlwaysIncluded ==
    (Listed /\ res.ok) =>
        \A i \in RoutesOfReply :
            (TableOf(msg.vec[i]) = 254 /\ ~ClonedMsg(msg.vec[i]))
            => Returned(msg.vec[i])

\* C15, amended: a route of the main table in the reply, not a kernel clone,
\* is in the result of a listing that succeeds exactly when the listing has
\* no filter, or the output-interface bit of the mask is clear, or the
\* route's link index is the filter's; never is it left out for its table.
C15_MainIncludedUnlessOif ==
    (Listed /\ res.ok) =>
        \A i \in RoutesOfReply :
            (TableOf(msg.vec[i]) = 254 /\ ~ClonedMsg(msg.vec[i]))
            => (Returned(msg.vec[i])
                  <=> \/ FilterUsed = None
                      \/ Bit(MaskUsed, 6) = 0
                      \/ OifOf(msg.vec[i]) = FilterUsed[1].link_index)

C15_Witness ==
    /\ Listed /\ res.ok
    /\ arg.op = "route_list" /\ arg.link_id = Some(1)
    /\ Len(msg.vec) = 2
    /\ \A i \in 1..2 : TableOf(msg.vec[i]) = 254 /\ ~ClonedMsg(msg.vec[i])
    /\ OifOf(msg.vec[1]) = 2 /\ OifOf(msg.vec[2]) = 1
    /\ msg.vec[2].header.table = 0
    /\ Len(res.routes) = 1 /\ res.routes[1].link_index = 1

\* C16 as stated: a route of another table than main, not a kernel clone,
\* is left out when the table bit of the mask is clear, and is not left out
\* for its table when that bit is set.
C16_TableBitDecides ==
    (Listed /\ res.ok) =>
        \A i \in RoutesOfReply :
            (TableOf(msg.vec[i]) # 254 /\ ~ClonedMsg(msg.vec[i]))
            => /\ Bit(MaskUsed, 10) = 0 => ~Returned(msg.vec[i])
               /\ (/\ Bit(MaskUsed, 10) = 1
                   /\ \/ FilterUsed = None
                      \/ Bit(MaskUsed, 6) = 0
                      \/ OifOf(msg.vec[i]) = FilterUsed[1].link_index)
                  => Returned(msg.vec[i])

\* C16, amended: a route of another table than main, not a kernel clone, is
\* left out unless the caller gives a filter and the table bit of the mask
\* is set; then it is returned exactly when the output-interface filter lets
\* it pass.  The table is the table attribute when present, else the
\* header's.
C16_TableBitWithFilter ==
    (Listed /\ res.ok) =>
        \A i \in RoutesOfReply :
            (TableOf(msg.vec[i]) # 254 /\ ~ClonedMsg(msg.vec[i]))
            => (Returned(msg.vec[i])
                  <=> /\ FilterUsed # None
                      /\ Bit(MaskUsed, 10) = 1
                      /\ \/ Bit(MaskUsed, 6) = 0
                         \/ OifOf(msg.vec[i]) = FilterUsed[1].link_index)

C16_Witness ==
    /\ Listed /\ res.ok
    /\ arg.op = "route_list_filtered"
    /\ arg.route_filter # None /\ arg.filter_mask = 1024
    /\ Len(msg.vec) = 2
    /\ msg.vec[1].header.table = 254 /\ TableOf(msg.vec[1]) = 300
    /\ msg.vec[2].header.table = 100
    /\ \A i \in 1..2 : ~ClonedMsg(msg.vec[i])
    /\ Len(res.routes) = 2
    /\ res.routes[1].table = Some(300) /\ res.routes[2].table = Some(100)

\* The kind tags of the reply message m, in order, over all its link-info
\* blocks, and its other link-info entries.
RECURSIVE Flatten(_)
Flatten(ss) == IF ss = <<>> THEN <<>> ELSE Head(ss) \o Flatten(Tail(ss))
InfoEntriesOf(m) ==
    Flatten([j \in 1..Len(SelectSeq(m.nlas, LAMBDA a : a.tag = "Info")) |->
                SelectSeq(m.nlas, LAMBDA a : a.tag = "Info")[j].val])
KindTagsOf(m) ==
    LET ks == SelectSeq(InfoEntriesOf(m), LAMBDA e : e.tag = "Kind")
    IN  [j \in 1..Len(ks) |-> ks[j].val]
StrayInfo(m) ==
    \E j \in 1..Len(InfoEntriesOf(m)) :
        InfoEntriesOf(m)[j].tag \notin {"Kind", "Data", "PortKind", "PortData"}

\* The LinkKind variant the claim gives to each supported kind tag.
SupportedKinds == {"bridge", "veth", "iptun", "tun", "vxlan"}
VariantOf(tag) ==
    CASE tag = "bridge" -> "Bridge"
      [] tag = "veth" -> "Veth"
      [] tag \in {"iptun", "tun"} -> "Tuntap"
      [] tag = "vxlan" -> "Vxlan"

Decoded == stage = "returned" /\ arg.op = "link_deserialize" /\ msg.ty = "NewLink"

\* C17: a reply whose kind tags are all supported decodes to the variant of
\* its (last) kind tag, bridge to Bridge, veth to Veth, ip-tunnel and tun to
\* Tuntap, vxlan to Vxlan; a reply with no kind tag decodes to Device; a
\* reply with a kind tag outside the supported set fails as unimplemented.
\* A decode that succeeds never gives another variant than these.  (A link-
\* info entry that is neither kind, data, port kind nor port data makes the
\* decode fail as unimplemented as well.)
C17_KindDispatch ==
    Decoded =>
        LET ks == KindTagsOf(msg)
            unsupported == \E j \in 1..Len(ks) : ks[j] \notin SupportedKinds
        IN  /\ unsupported => (~res.ok /\ res.err = "Unimplemented"
                                       /\ res.link = None)
            /\ (~unsupported /\ ~StrayInfo(msg)) => res.ok
            /\ res.ok =>
                  /\ ~unsupported
                  /\ res.link[1].link_kind.kind =
                        (IF ks = <<>> THEN "Device" ELSE VariantOf(ks[Len(ks)]))

C17_Witness ==
    /\ Decoded
    /\ KindTagsOf(msg) = <<"tun">>
    /\ Len(InfoEntriesOf(msg)) = 2
    /\ res.ok
    /\ res.link[1].link_kind.kind = "Tuntap"
    /\ res.link[1].link_attrs.multi = 1

\* The nested VXLAN data of the request link_add built.
VxlanAdded ==
    /\ stage = "returned"
    /\ arg.op = "link_add"
    /\ arg.link.link_kind.kind = "Vxlan"
    /\ msg # NoCall
VxlanDataOf(m) ==
    LET infos == SelectSeq(m.nlas, LAMBDA a : a.tag = "Info")
        data == SelectSeq(infos[1].val, LAMBDA e : e.tag = "Data")
    IN  data[1].val.v
AttrsOf(attrs, tag) == SelectSeq(attrs, LAMBDA a : a.tag = tag)

\* C18: the VXLAN data of the request carries exactly one ageing attribute
\* with value 0 when no_age is set, whatever age is; when no_age is not set
\* it carries one ageing attribute with value age if age is positive, and
\* none otherwise.
C18_VxlanAgeing ==
    VxlanAdded =>
        LET v == arg.link.link_kind.v
            ageing == AttrsOf(VxlanDataOf(msg.m), "Ageing")
        IN  /\ v.no_age => (Len(ageing) = 1 /\ ageing[1].val = 0)
            /\ (~v.no_age /\ v.age > 0) =>
                  (Len(ageing) = 1 /\ ageing[1].val = v.age)
            /\ (~v.no_age /\ v.age = 0) => ageing = <<>>

C18_Witness ==
    /\ VxlanAdded
    /\ arg.link.link_kind.v.no_age
    /\ arg.link.link_kind.v.age = 300
    /\ AttrsOf(VxlanDataOf(msg.m), "Ageing") = <<Nla("Ageing", 0)>>

\* C19: the VXLAN data of the request carries a port-range attribute exactly
\* when port_low and port_high are both non-zero, with the pair (port_low,
\* port_high); with one bound only there is no such attribute and link_add
\* does not fail for it.
C19_VxlanPortRange ==
    VxlanAdded =>
        LET v == arg.link.link_kind.v
            range == AttrsOf(VxlanDataOf(msg.m), "PortRange")
        IN  /\ (v.port_low # 0 /\ v.port_high # 0) =>
                  (Len(range) = 1 /\ range[1].val = <<v.port_low, v.port_high>>)
            /\ (v.port_low = 0 \/ v.port_high = 0) => range = <<>>
            /\ msg.ok /\ ~res.panic

C19_Witness ==
    /\ VxlanAdded
    /\ arg.link.link_kind.v.port_low = 1000
    /\ arg.link.link_kind.v.port_high = 0
    /\ arg.link.link_kind.v.port = 4789
    /\ AttrsOf(VxlanDataOf(msg.m), "PortRange") = <<>>
    /\ res.ok

LookedUp ==
    /\ stage = "returned"
    /\ arg.op \in {"link_by_name", "link_by_index"}
    /\ msg.ok

\* C20: when the session yields no message the lookup returns Ok with no
\* link; when it yields one, the link decoded from it (or the failure of its
\* decode); when it yields more than one, it fails as ambiguous and returns
\* no link.
C20_UniqueLookup ==
    LookedUp =>
        /\ Len(msg.vec) = 0 => (res.ok /\ res.link = None)
        /\ Len(msg.vec) = 1 =>
              /\ res = link_deserialize(msg.vec[1])
              /\ res.ok =>
                    /\ res.link # None
                    /\ res.link[1].link_attrs.index = msg.vec[1].header.index
                    /\ res.link[1].link_attrs.name = msg.vec[1].nlas[1].val
        /\ Len(msg.vec) > 1 =>
              (~res.ok /\ res.err = "Ambiguous" /\ res.link = None)

C20_Witness ==
    /\ LookedUp
    /\ arg.op = "link_by_index"
    /\ Len(msg.vec) = 2
    /\ msg.vec[1] = msg.vec[2]
    /\ res.err = "Ambiguous"

RouteAdded ==
    /\ stage = "returned"
    /\ arg.op \in {"route_add", "route_add_ecmp", "route_replace"}
Unaddressed(route) ==
    route.dst = None /\ route.src = None /\ route.gw = None /\ route.mpls_dst = None

\* C21: route_add, route_add_ecmp and route_replace on a route with no
\* destination, no source, no gateway and no MPLS destination return a
\* failure and no request was handed to a handle; with at least one of them
\* present the call returns what execute says of a NewRoute request with
\* CREATE, which the socket took unless the send itself failed.
C21_RouteAddFailsFast ==
    RouteAdded =>
        /\ Unaddressed(arg.route) =>
              (~res.ok /\ ~res.panic /\ res.err = "Bail" /\ msg = NoCall)
        /\ ~Unaddressed(arg.route) =>
              /\ res.err \in Outcomes
              /\ msg = NoCall <=> res.err = "SendErr"
              /\ msg # NoCall =>
                    (msg.ok /\ msg.m.ty = "NewRoute"
                       /\ BitAnd(msg.flags, NLM_F_CREATE) # 0)

C21_Witness ==
    /\ RouteAdded
    /\ arg.op = "route_replace"
    /\ Unaddressed(arg.route)
    /\ arg.route.table = Some(100)
    /\ ~res.ok
    /\ msg = NoCall

\* C25: the header of an add or replace request names table main (254) only
\* when the route gives no table (or 0); for a table t in 1..255 the header
\* names t; for t above 255 the header table is unspecified (0) and a table
\* attribute carries t.
C25_TableOverride ==
    (RouteAdded /\ msg # NoCall) =>
        LET t == arg.route.table
            tables == SelectSeq(msg.m.nlas, LAMBDA a : a.tag = "Table")
        IN  /\ (t = None \/ t = Some(0)) =>
                  (msg.m.header.table = RT_TABLE_MAIN /\ tables = <<>>)
            /\ (t # None /\ t # Some(0) /\ t[1] <= 255) =>
                  (msg.m.header.table = t[1] /\ tables = <<>>)
            /\ (t # None /\ t # Some(0) /\ t[1] > 255) =>
                  (msg.m.header.table = RT_TABLE_UNSPEC
                     /\ tables = <<Nla("Table", t[1])>>)

LinkAdded == stage = "returned" /\ arg.op = "link_add"
KindOfArg == arg.link.link_kind.kind
LinkInfoOf(m) == SelectSeq(m.nlas, LAMBDA a : a.tag = "Info")

\* C22: link_add on a link of Tuntap kind and on a link of Device kind ends
\* in an Unimplemented failure and hands no request to a handle; it does not
\* return what execute says of a request.
C22_UnbuiltFailsLoudly ==
    (LinkAdded /\ KindOfArg \in {"Tuntap", "Device"}) =>
        (~res.ok /\ res.err = "Unimplemented" /\ msg = NoCall)

\* C23: every create-link request that is sent for a link of kind Veth,
\* Bridge, Vxlan, Dummy or Tuntap carries one link-info block whose first
\* entry is the kind tag get_link_kind gives the link's kind, with or
\* without a data entry after it.
C23_KindTagAlways ==
    (LinkAdded /\ msg # NoCall
              /\ KindOfArg \in {"Veth", "Bridge", "Vxlan", "Dummy", "Tuntap"}) =>
        /\ Len(LinkInfoOf(msg.m)) = 1
        /\ LinkInfoOf(msg.m)[1].val # <<>>
        /\ LinkInfoOf(msg.m)[1].val[1] =
              Nla("Kind", CASE KindOfArg = "Veth" -> "veth"
                            [] KindOfArg = "Bridge" -> "bridge"
                            [] KindOfArg = "Vxlan" -> "vxlan"
                            [] KindOfArg = "Dummy" -> "dummy"
                            [] KindOfArg = "Tuntap" -> "iptun")

\* The bits of a flag word that are among up, broadcast, loopback,
\* point-to-point and multicast.
RequestedSettable(flags) ==
    BitAnd(flags, IFF_UP + IFF_BROADCAST + IFF_LOOPBACK + IFF_POINTOPOINT
                  + IFF_MULTICAST)

\* C26: in the request link_add builds, the header's flags and change mask
\* are equal and are the link's flags restricted to up, broadcast, loopback,
\* point-to-point and multicast; no other bit is in either.
C26_OnlyRequestedFlags ==
    (LinkAdded /\ msg # NoCall) =>
        /\ msg.m.header.flags = msg.m.header.change_mask
        /\ msg.m.header.flags = RequestedSettable(arg.link.link_attrs.flags)
        /\ BitAnd(msg.m.header.change_mask,
                  IFF_PROMISC + IFF_ALLMULTI + 4 + 32 + 64 + 128) = 0

C26_Witness ==
    /\ LinkAdded
    /\ msg # NoCall
    /\ arg.link.link_attrs.flags = 4379
    /\ msg.m.header.flags = 4123
    /\ msg.m.header.change_mask = 4123

\* C30: for a link of kind Veth, Bridge, Vxlan, Dummy or Tuntap, decoding a
\* reply that carries the kind tag the encoder gives that kind succeeds and
\* yields a link of the same kind.
C30_KindRoundTrip ==
    (stage = "returned" /\ arg.op = "kind_round_trip"
        /\ KindOfArg \in {"Veth", "Bridge", "Vxlan", "Dummy", "Tuntap"}) =>
        (res.ok /\ res.link # None /\ res.link[1].link_kind.kind = KindOfArg)

AddrDecoded == stage = "returned" /\ arg.op = "addr_try_from" /\ res.ok
LocalOf(m) == SelectSeq(m.nlas, LAMBDA a : a.tag = "Local")
AddressOf(m) == SelectSeq(m.nlas, LAMBDA a : a.tag = "Address")

\* C24: a decoded reply with a local and a destination value that, for
\* IPv4, are the same address gives a plain address: its network is that
\* address with the header's prefix length and peer is absent.  Otherwise,
\* when a local value is present, the address is the local value and peer is
\* the destination with the header's prefix length, or absent when there is
\* no destination; for a family other than IPv4 that is so even when the
\* two are the same.
C24_LocalAndDestination ==
    (AddrDecoded /\ LocalOf(msg) # <<>>) =>
        LET local == LocalOf(msg)[1].val
            dsts == AddressOf(msg)
            plain == /\ msg.header.family = FAMILY_V4
                     /\ dsts # <<>>
                     /\ dsts[1].val = local
        IN  /\ plain =>
                  /\ res.addr.ipnet.ip.o = local
                  /\ res.addr.ipnet.prefix = msg.header.prefix_len
                  /\ res.addr.peer = None
            /\ ~plain =>
                  /\ res.addr.ipnet.ip.o = local
                  /\ dsts = <<>> => res.addr.peer = None
                  /\ dsts # <<>> =>
                        /\ res.addr.peer # None
                        /\ res.addr.peer[1].ip.o = dsts[1].val
                        /\ res.addr.peer[1].prefix = msg.header.prefix_len

C24_Witness ==
    /\ AddrDecoded
    /\ msg.header.family = FAMILY_V4
    /\ msg.header.prefix_len = 24
    /\ LocalOf(msg) # <<>>
    /\ AddressOf(msg) # <<>>
    /\ LocalOf(msg)[1].val = AddressOf(msg)[1].val
    /\ res.addr.peer = None
    /\ res.addr.ipnet.prefix = 24
    /\ res.addr.label = "eth0"

\* C27: in every call of a row of calls on one handle, the accumulated and the
\* returned inner messages all come from frames with the sequence number of
\* that call's request (the kernel answers request s with body s); and a
\* frame with a lower sequence number, left on the socket by an earlier call,
\* is taken and dropped: the loop goes on, nothing is added and the call does
\* not end.
C27_OnlyOwnFrames ==
    [][\A h \in Handles :
          /\ \A i \in 1..Len(result'[h]) : result'[h][i] = seq'[h]
          /\ \A i \in 1..Len(ret'[h]) : ret'[h][i] = seq'[h]
          /\ (/\ pc[h] = "recv"
              /\ src'[h] # src[h]
              /\ last'[h] # NoMsg
              /\ last'[h].seq < seq[h])
             => /\ pc'[h] = "recv"
                /\ outcome'[h] = "None"
                /\ result'[h] = result[h]]_vars

C27_Witness ==
    \E h \in Handles :
        /\ calls[h] = 2
        /\ seq[h] = 2
        /\ pc[h] = "recv"
        /\ last[h] = Msg("Error", 0, 1, 0)
        /\ result[h] = <<>>
        /\ src[h] = InnerFrame(0, 1, 1)

FailureOutcomes ==
    {"NotFound", "AlreadyExists", "ErrorResponse", "SeqMismatch", "Unimplemented"}

\* C28: when execute has ended in NotFound, AlreadyExists, a generic error
\* response, a sequence mismatch or an unimplemented payload, it has
\* returned no inner message, whatever was accumulated before the failing
\* frame.
C28_NoPartialOnFailure ==
    \A h \in Handles :
        (pc[h] = "idle" /\ outcome[h] \in FailureOutcomes) => ret[h] = <<>>

C28_Witness ==
    \E h \in Handles :
        /\ pc[h] = "idle"
        /\ outcome[h] = "SeqMismatch"
        /\ result[h] = <<2, 2>>
        /\ ret[h] = <<>>

\* The frame at the front of a buffer, when its declared length can be read.
FrontOf(buf) == SubSeq(buf, 1, Head(buf).len)
AfterFront(buf) == SubSeq(buf, Head(buf).len + 1, Len(buf))
JunkFront(buf) == buf # <<>> /\ new_checked(buf) /\ ~deserialize(FrontOf(buf)).ok
GoodFront(buf) == buf # <<>> /\ new_checked(buf) /\ deserialize(FrontOf(buf)).ok

\* C29: a step of the receive loop on a buffer whose front frame has a valid
\* declared length and does not deserialize removes that frame and takes
\* the well-formed frame after it: that frame is the one handled, an inner
\* message of the current sequence number is appended to the results, and if
\* the call goes on the buffer holds what follows that frame.  With nothing
\* after the skipped frame the buffer is emptied, not discarded as
\* malformed, and the call neither fails nor ends.
C29_SkipUndecodable ==
    [][\A h \in Handles :
          (/\ pc[h] = "recv"
           /\ JunkFront(src[h])
           /\ src'[h] # src[h])
          => LET rest == AfterFront(src[h])
             IN  /\ GoodFront(rest) =>
                       LET f == deserialize(FrontOf(rest)).msg
                       IN  /\ last'[h] = f
                           /\ (f.seq = seq[h] /\ f.ty = "InnerMessage") =>
                                 result'[h] = Append(result[h], f.v)
                           /\ pc'[h] = "recv" => src'[h] = AfterFront(rest)
                           /\ pc'[h] = "idle" =>
                                 outcome'[h] = recv_step(f, seq[h], result[h]).ctl
                 /\ rest = <<>> =>
                       /\ src'[h] = <<>>
                       /\ pc'[h] = "recv"
                       /\ outcome'[h] = "None"
                       /\ result'[h] = result[h]
                       /\ lost'[h] = lost[h]]_vars

C29_Witness ==
    \E h \in Handles :
        /\ pc[h] = "idle"
        /\ outcome[h] = "Ok"
        /\ ret[h] = <<2, 1, 2>>
        /\ last[h].ty = "Done"

====
